---- MODULE Spec2Model ----
(***************************************************************************)
(* Model of the workbook analysis engine of abrshewube/anyfile             *)
(* (src/excel/src/handler.ts): the formula graph builder, the cycle        *)
(* detector, the evaluation orchestrator and the cell/sheet helpers they   *)
(* read from.                                                              *)
(*                                                                         *)
(* Strings that the code joins with "!" and later splits on "!" are kept   *)
(* in split form: a sheet name is the non-empty sequence of its "!"-free   *)
(* segments (<<"Sheet1">> is Sheet1, <<"Sheet1","x">> is the sheet named   *)
(* Sheet1!x), and a node `${sheet}!${address}` is the sheet's segments     *)
(* followed by the address.  Two such strings are equal exactly when       *)
(* their segment sequences are.                                            *)
(***************************************************************************)
EXTENDS Integers, Sequences, FiniteSets, TLC

VARIABLES
    workbook,                   \* XLSX.WorkBook: [SheetNames, Sheets]
    lastEvaluationTimestamp,    \* module-level Date | undefined (0 = undefined)
    res,                        \* outcome of the last API call
    graph,                      \* a Map<string, Set<string>> under construction
    found,                      \* what detectCircularReferences returned for graph
    archive,                    \* per handle: the buffer createAssetExtractors got
    assets,                     \* per handle: the closure of createAssetExtractors
    calls,                      \* per handle and query: callers waiting, results given
    customFormulaRegistry,      \* module-level Set<string>, in insertion order
    registered,                 \* history: the names given to calls that returned
    coreRegistry,               \* registry of registry.ts: [byType, byExtension]
    excelRegistered             \* `registered` of the Excel module (index.ts 23)

vars == <<workbook, lastEvaluationTimestamp, res, graph, found,
          archive, assets, calls, customFormulaRegistry, registered,
          coreRegistry, excelRegistered>>

assetVars == <<archive, assets, calls>>
registryVars == <<customFormulaRegistry, registered>>
coreVars == <<coreRegistry, excelRegistered>>

\* ------------------------------------------------------------------ bounds

\* Nodes and edges of the graphs the cycle detector is run on.
MaxNodes == 3
MaxEdges == 4

\* Cells a workbook holds over all its sheets.
MaxCells == 2

\* Readings of the wall clock (new Date()) that are told apart.
MaxClock == 2

\* Calls of getCharts, getImages and listMacros over all handles.
MaxCalls == 3

\* -------------------------------------------------------- sequence helpers

Range(s) == { s[i] : i \in 1..Len(s) }

\* Array.prototype.indexOf, 1-based; 0 stands for -1.
IndexOf(s, x) ==
    IF \E i \in 1..Len(s) : s[i] = x
    THEN CHOOSE i \in 1..Len(s) : s[i] = x /\ \A j \in 1..(i - 1) : s[j] # x
    ELSE 0

\* ------------------------------------------------- Map<string, Set<string>>
\* A Map iterates in insertion order, and so does a Set: the graph is the
\* sequence of its entries, each with the sequence of its dependencies.

EmptyGraph == << >>

GraphKeys(g) == [ i \in 1..Len(g) |-> g[i].node ]

GraphHas(g, node) == \E i \in 1..Len(g) : g[i].node = node

\* graph.get(node)!, for a node that is a key
GraphGet(g, node) == g[IndexOf(GraphKeys(g), node)].deps

\* graph.set(node, new Set()) for a node that is not yet a key
GraphSetNew(g, node) == Append(g, [node |-> node, deps |-> << >>])

\* deps.add(ref) on the Set stored under node: a no-op when ref is there
GraphAddDep(g, node, ref) ==
    LET i == IndexOf(GraphKeys(g), node) IN
    IF ref \in Range(g[i].deps) THEN g
    ELSE [g EXCEPT ![i].deps = Append(@, ref)]

\* ---------------------------------------------------------- cycle detector
\* detectCircularReferences, handler.ts 705-749.  st is the closure state of
\* dfs: visited, stack, path, cycles.

DfsInit == [visited |-> {}, stack |-> {}, path |-> << >>, cycles |-> << >>]

\* stack.has(node)
OnStackBug(st, node) == FALSE
OnStack(st, node) == node \in st.stack

\* visited.has(node)
AlreadyVisitedBug(st, node) == FALSE
AlreadyVisited(st, node) == node \in st.visited

\* path.slice(cycleStart).concat(node); cycleStart is 1-based here
CyclePathBug(path, cycleStart, node) == SubSeq(path, cycleStart, Len(path))
CyclePath(path, cycleStart, node) ==
    Append(SubSeq(path, cycleStart, Len(path)), node)

RECURSIVE dfs(_, _, _), dfsEach(_, _, _, _)

dfs(g, node, st) ==
    IF OnStack(st, node) THEN
        LET cycleStart == IndexOf(st.path, node) IN
        IF cycleStart # 0
        THEN [st EXCEPT !.cycles =
                 Append(@, [path |-> CyclePath(st.path, cycleStart, node)])]
        ELSE st
    ELSE IF AlreadyVisited(st, node) THEN st
    ELSE
        LET entered == [st EXCEPT !.visited = @ \cup {node},
                                  !.stack = @ \cup {node},
                                  !.path = Append(@, node)]
            after == IF GraphHas(g, node)
                     THEN dfsEach(g, GraphGet(g, node), 1, entered)
                     ELSE entered
        IN [after EXCEPT !.path = SubSeq(@, 1, Len(@) - 1),
                         !.stack = @ \ {node}]

\* dependencies.forEach((next) => dfs(next)), from the i-th dependency on
dfsEach(g, deps, i, st) ==
    IF i > Len(deps) THEN st
    ELSE dfsEach(g, deps, i + 1, dfs(g, deps[i], st))

\* graph.forEach((_deps, node) => { if (!visited.has(node)) dfs(node) })
RECURSIVE dfsRoots(_, _, _)
dfsRoots(g, i, st) ==
    IF i > Len(g) THEN st
    ELSE dfsRoots(g, i + 1,
                  IF AlreadyVisited(st, g[i].node) THEN st
                  ELSE dfs(g, g[i].node, st))

\* detectCircularReferences once the graph is known
DetectCycles(g) == dfsRoots(g, 1, DfsInit).cycles

\* --------------------------------------------------------------- universes
\* Sheet names in split form: Sheet1, and Sheet1!x (a name the sheet
\* helpers accept: they only trim and test for emptiness and duplicates).
SheetNameUniverse == { <<"Sheet1">>, <<"Sheet1", "x">> }

\* A sheet name that no sheet of the model ever carries.
UnknownSheet == <<"Nope">>

\* What `${undefined}` and workbook.Sheets[undefined] make of undefined.
UndefinedName == <<"undefined">>

\* Option values: undefined, or a defined value.
Undefined == << >>
Some(x) == <<x>>

\* 1-based rows and columns the callers pass.
Rows == {1}
Columns == {1, 2}

\* XLSX.utils.encode_col for the columns of the model, 0-based.
ColumnLetters == <<"A", "B", "C", "D", "E">>

\* XLSX.utils.encode_cell({r, c}), r and c 0-based and not negative
encode_cell(r, c) == ColumnLetters[c + 1] \o ToString(r + 1)

Addresses == { encode_cell(row - 1, column - 1) : row \in Rows, column \in Columns }

\* A reference-like token of a formula text, as the resolver's pattern
\* captures it: an optional sheet qualifier (quoted or bare) and the column
\* letters and row digits.  kind "ref" is a reference the calculation engine
\* reads too; kind "lit" is the same text inside a string literal, which the
\* engine does not read as a reference.
NoQualifier == << >>
Tokens ==
    [kind : {"ref"}, qual : {NoQualifier}, addr : Addresses]
      \cup [kind : {"ref"}, qual : { <<"Sheet1">> }, addr : {"A1"}]
      \cup [kind : {"lit"}, qual : {NoQualifier}, addr : {"A1"}]

\* A formula text: the empty string, or a text with its tokens in order.
EmptyText == [empty |-> TRUE, toks |-> << >>]
Text(toks) == [empty |-> FALSE, toks |-> toks]
FormulaTexts == { Text(<< >>) } \cup { Text(<<t>>) : t \in Tokens }

\* value of setCell (ExcelCellValue)
ValueInputs == { "undefined", "null", "num" }

\* JavaScript truthiness of an optional string
Truthy(opt) == opt # Undefined /\ ~opt[1].empty

\* String.prototype.toUpperCase on the strings of the model
toUpperCase(s) ==
    CASE s = "x" -> "X"
      [] s = "Sheet1" -> "SHEET1"
      [] s = "Nope" -> "NOPE"
      [] s = "undefined" -> "UNDEFINED"
      [] s = "double" -> "DOUBLE"
      [] s = "_x" -> "_X"
      [] OTHER -> s

\* String.prototype.trim on the sheet names callers pass
trim(name) ==
    CASE name = <<" Sheet1 ">> -> <<"Sheet1">>
      [] name = <<"  ">> -> <<"">>
      [] OTHER -> name

\* ------------------------------------------------------ reference resolver
\* handler.ts 775-798

\* address.replace(/\$/g, "").toUpperCase(); no string of the model holds "$"
normalizeAddress(address) == toUpperCase(address)

\* const [sheet, address] = reference.split("!")
normalizeReference(reference) ==
    <<reference[1], normalizeAddress(reference[2])>>

\* one match of the pattern: `${sheetRef}!${column}${row}`
tokenReference(tok, currentSheet) ==
    (IF tok.qual # NoQualifier THEN tok.qual ELSE currentSheet) \o <<tok.addr>>

extractCellReferences(formula, currentSheet) ==
    [ i \in 1..Len(formula.toks) |->
        normalizeReference(tokenReference(formula.toks[i], currentSheet)) ]

\* ------------------------------------- the resolver on the text of a formula
\* The same functions on a text given character by character, with the
\* pattern of handler.ts 776-778 matched as the regular-expression engine
\* matches it: leftmost, each optional or repeated part tried longest first.

UpperCaseLetters == { "A", "B", "C", "Q" }
LowerCaseLetters == { "a", "b", "c", "m", "s" }
Digits == { "0", "1", "2" }

\* [A-Za-z0-9_]
WordCharacters == UpperCaseLetters \cup LowerCaseLetters \cup Digits \cup { "_" }

\* String.prototype.toUpperCase, one character at a time
charToUpperCase(c) ==
    CASE c = "a" -> "A"
      [] c = "b" -> "B"
      [] c = "c" -> "C"
      [] c = "m" -> "M"
      [] c = "s" -> "S"
      [] OTHER -> c

\* String.prototype.toLowerCase, one character at a time
charToLowerCase(c) ==
    CASE c = "A" -> "a"
      [] c = "B" -> "b"
      [] c = "C" -> "c"
      [] c = "T" -> "t"
      [] c = "X" -> "x"
      [] OTHER -> c

\* the length of the longest run of characters of class from position p
RECURSIVE runLength(_, _, _)
runLength(text, p, class) ==
    IF p <= Len(text) /\ text[p] \in class
    THEN 1 + runLength(text, p + 1, class)
    ELSE 0

\* the characters of text from position p, n of them
Slice(text, p, n) == [ i \in 1..n |-> text[p + i - 1] ]

NoMatch == [matched |-> FALSE]

\* the ways !?\$?([A-Z]{1,3})\$? can be taken, in the order the engine tries
\* them: each optional character first present then absent, the letters
\* three, two, one
TailChoices ==
    [ k \in 1..24 |->
        [bang |-> 1 - ((k - 1) \div 12),
         dollar |-> 1 - (((k - 1) \div 6) % 2),
         letters |-> 3 - (((k - 1) \div 2) % 3),
         dollar2 |-> 1 - ((k - 1) % 2)] ]

\* one way of taking the tail at p, ending with [0-9]+ as long as it goes
tailWith(text, p, sheetRef, choice) ==
    LET p1 == p + choice.bang
        p2 == p1 + choice.dollar
        p3 == p2 + choice.letters
        p4 == p3 + choice.dollar2
        digits == runLength(text, p4, Digits)
    IN IF /\ choice.bang = 1 => (p <= Len(text) /\ text[p] = "!")
          /\ choice.dollar = 1 => (p1 <= Len(text) /\ text[p1] = "$")
          /\ runLength(text, p2, UpperCaseLetters) >= choice.letters
          /\ choice.dollar2 = 1 => (p3 <= Len(text) /\ text[p3] = "$")
          /\ digits >= 1
       THEN [matched |-> TRUE, sheetRef |-> sheetRef,
             column |-> Slice(text, p2, choice.letters),
             row |-> Slice(text, p4, digits), end |-> p4 + digits]
       ELSE NoMatch

\* !?\$?([A-Z]{1,3})\$?([0-9]+) at p: the first way that matches
RECURSIVE matchTail(_, _, _, _)
matchTail(text, p, sheetRef, k) ==
    IF k > Len(TailChoices) THEN NoMatch
    ELSE LET m == tailWith(text, p, sheetRef, TailChoices[k])
         IN IF m.matched THEN m ELSE matchTail(text, p, sheetRef, k + 1)

\* ([A-Za-z0-9_]+) taken n characters long, then shorter
RECURSIVE matchBare(_, _, _)
matchBare(text, p, n) ==
    IF n = 0 THEN NoMatch
    ELSE LET m == matchTail(text, p + n, Some(Slice(text, p, n)), 1)
         IN IF m.matched THEN m ELSE matchBare(text, p, n - 1)

\* '([^']+)': the characters up to the next quote, which must be there
matchQuoted(text, p) ==
    LET n == IF text[p] = "'"
             THEN runLength(text, p + 1, Range(text) \ {"'"})
             ELSE 0
    IN IF n >= 1 /\ p + n + 1 <= Len(text)
       THEN matchTail(text, p + n + 2, Some(Slice(text, p + 1, n)), 1)
       ELSE NoMatch

\* the whole pattern at p: a quoted qualifier, a bare one, then none
matchAt(text, p) ==
    LET quoted == matchQuoted(text, p)
        bare == matchBare(text, p, runLength(text, p, WordCharacters))
    IN IF quoted.matched THEN quoted
       ELSE IF bare.matched THEN bare
       ELSE matchTail(text, p, Undefined, 1)

\* formula.matchAll(pattern): the matches from left to right, each search
\* starting where the last match ended
RECURSIVE matchAll(_, _, _)
matchAll(text, p, matches) ==
    IF p > Len(text) THEN matches
    ELSE LET m == matchAt(text, p)
         IN IF m.matched THEN matchAll(text, m.end, Append(matches, m))
            ELSE matchAll(text, p + 1, matches)

\* String.prototype.split("!")
RECURSIVE splitBang(_, _, _)
splitBang(text, p, piece) ==
    IF p > Len(text) THEN <<piece>>
    ELSE IF text[p] = "!" THEN <<piece>> \o splitBang(text, p + 1, << >>)
    ELSE splitBang(text, p + 1, Append(piece, text[p]))

\* normalizeAddress, handler.ts 796-798, on characters
normalizeAddressText(address) ==
    LET kept == SelectSeq(address, LAMBDA c : c # "$")
    IN [ i \in 1..Len(kept) |-> charToUpperCase(kept[i]) ]

\* normalizeReference, handler.ts 791-794, on characters
normalizeReferenceText(reference) ==
    LET pieces == splitBang(reference, 1, << >>)
    IN pieces[1] \o <<"!">> \o normalizeAddressText(pieces[2])

\* extractCellReferences, handler.ts 775-789, on characters
extractCellReferencesText(text, currentSheet) ==
    LET matches == matchAll(text, 1, << >>)
    IN [ i \in 1..Len(matches) |->
           normalizeReferenceText(
               (IF matches[i].sheetRef # Undefined THEN matches[i].sheetRef[1]
                ELSE currentSheet)
                 \o <<"!">> \o matches[i].column \o matches[i].row) ]

\* ---------------------------------------------------------------- workbook
\* A worksheet is an object keyed by address: Object.entries lists it in
\* insertion order, so it is the sequence of its entries.  A cell is kept
\* with its optional formula f; its value, type and style are not part of
\* the model.

WsHas(ws, address) == \E i \in 1..Len(ws) : ws[i].addr = address

WsIndex(ws, address) == CHOOSE i \in 1..Len(ws) : ws[i].addr = address

WsGet(ws, address) == ws[WsIndex(ws, address)].cell

\* ws[address] = cell
WsPut(ws, address, cell) ==
    IF WsHas(ws, address)
    THEN [ws EXCEPT ![WsIndex(ws, address)].cell = cell]
    ELSE Append(ws, [addr |-> address, cell |-> cell])

CellCount(wb) ==
    LET RECURSIVE Sum(_)
        Sum(i) == IF i > Len(wb.SheetNames) THEN 0
                  ELSE Len(wb.Sheets[wb.SheetNames[i]]) + Sum(i + 1)
    IN Sum(1)

\* handler.ts 281-287
resolveSheetName(wb, input) ==
    IF input.kind = "name" THEN input.name
    ELSE IF input.index + 1 <= Len(wb.SheetNames)
         THEN wb.SheetNames[input.index + 1]
         ELSE IF Len(wb.SheetNames) >= 1 THEN wb.SheetNames[1]
              ELSE UndefinedName

\* workbook.Sheets[sheetName] is there
HasSheet(wb, sheetName) == sheetName \in DOMAIN wb.Sheets

\* ------------------------------------------------------------ graph builder
\* buildFormulaGraph, handler.ts 751-773

RECURSIVE addRefs(_, _, _, _)
addRefs(g, node, refs, k) ==
    IF k > Len(refs) THEN g
    ELSE addRefs(GraphAddDep(g, node, refs[k]), node, refs, k + 1)

\* if (!cell.f) continue
SkipCell(cell) == ~Truthy(cell.f)

RECURSIVE buildCells(_, _, _, _)
buildCells(ws, sheetName, j, g) ==
    IF j > Len(ws) THEN g
    ELSE IF SkipCell(ws[j].cell) THEN buildCells(ws, sheetName, j + 1, g)
    ELSE
        LET node == sheetName \o <<normalizeAddress(ws[j].addr)>>
            refs == extractCellReferences(ws[j].cell.f[1], sheetName)
            g1 == IF GraphHas(g, node) THEN g ELSE GraphSetNew(g, node)
        IN buildCells(ws, sheetName, j + 1, addRefs(g1, node, refs, 1))

RECURSIVE buildSheets(_, _, _)
buildSheets(wb, i, g) ==
    IF i > Len(wb.SheetNames) THEN g
    ELSE IF ~HasSheet(wb, wb.SheetNames[i]) THEN buildSheets(wb, i + 1, g)
    ELSE buildSheets(wb, i + 1,
             buildCells(wb.Sheets[wb.SheetNames[i]], wb.SheetNames[i], 1, g))

buildFormulaGraph(wb) == buildSheets(wb, 1, EmptyGraph)

\* detectCircularReferences(workbook, precomputedGraph?)
detectCircularReferences(wb, precomputedGraph) ==
    DetectCycles(IF precomputedGraph # Undefined THEN precomputedGraph[1]
                 ELSE buildFormulaGraph(wb))

\* ------------------------------------------------------- sheet/cell helpers

\* What a call does: it throws, or it returns a value; wb is the workbook and
\* ts the evaluation timestamp it leaves behind.
Threw(wb, ts, message) == [threw |-> TRUE, error |-> message, wb |-> wb, ts |-> ts]
Returned(wb, ts, value) == [threw |-> FALSE, value |-> value, wb |-> wb, ts |-> ts]

\* XLSX.utils.aoa_to_sheet([])
EmptySheet == << >>

\* XLSX.utils.book_append_sheet(workbook, worksheet, sheetName)
book_append_sheet(wb, worksheet, sheetName) ==
    [SheetNames |-> Append(wb.SheetNames, sheetName),
     Sheets |-> [n \in DOMAIN wb.Sheets \cup {sheetName} |->
                    IF n = sheetName THEN worksheet ELSE wb.Sheets[n]]]

\* addWorksheet, handler.ts 324-336
addWorksheet(wb, ts, name) ==
    LET sheetName == trim(name) IN
    IF sheetName = <<"">> THEN Threw(wb, ts, "Sheet name cannot be empty.")
    ELSE IF HasSheet(wb, sheetName) THEN Threw(wb, ts, "Sheet already exists.")
    ELSE Returned(book_append_sheet(wb, EmptySheet, sheetName), ts, "void")

\* addWorksheetFromCSV, handler.ts 338-359; parsed is the first sheet of
\* XLSX.read(csvText), undefined when the parse gives none
addWorksheetFromCSV(wb, ts, name, parsed) ==
    LET sheetName == trim(name) IN
    IF sheetName = <<"">> THEN Threw(wb, ts, "Sheet name cannot be empty.")
    ELSE IF HasSheet(wb, sheetName) THEN Threw(wb, ts, "Sheet already exists.")
    ELSE IF parsed = Undefined THEN Threw(wb, ts, "Unable to parse CSV content.")
    ELSE Returned(book_append_sheet(wb, parsed[1], sheetName), ts, "void")

\* workbook.SheetNames.splice(index, 1) when index >= 0
SpliceOutBug(names, name) ==
    LET index == IndexOf(names, name) IN
    IF index = 0 THEN names
    ELSE SubSeq(names, 1, index - 1)
SpliceOut(names, name) ==
    LET index == IndexOf(names, name) IN
    IF index = 0 THEN names
    ELSE SubSeq(names, 1, index - 1) \o SubSeq(names, index + 1, Len(names))

deleteWorksheetBug(wb, ts, name) ==
    Returned([SheetNames |-> SpliceOut(wb.SheetNames, name),
              Sheets |-> [n \in DOMAIN wb.Sheets \ {name} |-> wb.Sheets[n]]],
             ts, "void")

\* deleteWorksheet, handler.ts 361-371
deleteWorksheet(wb, ts, name) ==
    IF ~HasSheet(wb, name) THEN Threw(wb, ts, "Sheet not found.")
    ELSE Returned([SheetNames |-> SpliceOut(wb.SheetNames, name),
                   Sheets |-> [n \in DOMAIN wb.Sheets \ {name} |-> wb.Sheets[n]]],
                  ts, "void")

\* getCellValue, handler.ts 373-400: undefined, or a view of the cell
getCellValue(wb, ts, sheet, row, column) ==
    LET sheetName == resolveSheetName(wb, sheet) IN
    IF ~HasSheet(wb, sheetName) THEN Threw(wb, ts, "Sheet not found.")
    ELSE
        LET worksheet == wb.Sheets[sheetName]
            cellAddress == encode_cell(row - 1, column - 1)
        IN IF ~WsHas(worksheet, cellAddress) THEN Returned(wb, ts, Undefined)
           ELSE LET cell == WsGet(worksheet, cellAddress) IN
                Returned(wb, ts, Some([address |-> cellAddress,
                                       formula |-> cell.f]))

\* worksheetToCSV, handler.ts 479-490: the text XLSX.utils.sheet_to_csv makes
\* of the sheet, kept as the addresses of the cells it is made from
worksheetToCSV(wb, ts, sheet) ==
    LET sheetName == resolveSheetName(wb, sheet) IN
    IF ~HasSheet(wb, sheetName) THEN Threw(wb, ts, "Sheet not found.")
    ELSE Returned(wb, ts, { wb.Sheets[sheetName][i].addr
                              : i \in 1..Len(wb.Sheets[sheetName]) })

\* XLSX.utils.sheet_add_aoa(worksheet, [[writeValue]], {origin}): a null is
\* skipped and leaves the cell as it is, anything else replaces the cell by a
\* fresh one that carries the value and no formula
sheet_add_aoa(worksheet, writeValue, cellAddress) ==
    IF writeValue = "null" THEN worksheet
    ELSE WsPut(worksheet, cellAddress, [f |-> Undefined])

\* the branch of setCellValue that settles cell.f, handler.ts 437-444
settleFormulaBug(cell, value, formula) ==
    IF Truthy(formula) THEN [cell EXCEPT !.f = formula] ELSE cell
settleFormula(cell, value, formula) ==
    IF Truthy(formula) THEN [cell EXCEPT !.f = formula]
    ELSE IF Truthy(cell.f) /\ value # "undefined" THEN [cell EXCEPT !.f = Undefined]
    ELSE cell

\* setCellValue, handler.ts 402-459 (styles and Date values are not kept:
\* they touch cell.s and cell.t only)
setCellValue(wb, ts, sheet, row, column, value, formula) ==
    LET sheetName == resolveSheetName(wb, sheet) IN
    IF ~HasSheet(wb, sheetName) THEN Threw(wb, ts, "Sheet not found.")
    ELSE IF row < 1 \/ column < 1
    THEN Threw(wb, ts, "Row and column must be 1-based positive integers.")
    ELSE
        LET worksheet == wb.Sheets[sheetName]
            cellAddress == encode_cell(row - 1, column - 1)
            writeValue == IF formula # Undefined /\ ~formula[1].empty THEN "=formula"
                          ELSE IF value = "undefined" THEN "null" ELSE value
            written == sheet_add_aoa(worksheet, writeValue, cellAddress)
            settled == IF WsHas(written, cellAddress)
                       THEN WsPut(written, cellAddress,
                                  settleFormula(WsGet(written, cellAddress), value, formula))
                       ELSE written
        IN Returned([wb EXCEPT !.Sheets[sheetName] = settled], ts, "void")

\* ------------------------------------------------------ calculation engine
\* XLSX_CALC(workbook), the external engine called at handler.ts 618 and
\* declared in src/unnamed/part_003: it rewrites the values of the formula
\* cells in place (values are not part of the model) and throws on failure.
\* Which outcome a run has is the engine's business; the model lets it be
\* any outcome the workbook allows.

\* the formula cells, as <<sheet name, address>> pairs
FormulaCells(wb) ==
    UNION { { <<n, wb.Sheets[n][j].addr>> :
                j \in { k \in 1..Len(wb.Sheets[n]) : Truthy(wb.Sheets[n][k].cell.f) } } :
            n \in Range(wb.SheetNames) \cap DOMAIN wb.Sheets }

\* the cells a formula cell reads, as the engine parses its formula: the
\* references outside string literals, unqualified ones on the cell's sheet
EngineReads(wb, c) ==
    LET toks == WsGet(wb.Sheets[c[1]], c[2]).f[1].toks IN
    { <<IF toks[i].qual # NoQualifier THEN toks[i].qual ELSE c[1], toks[i].addr>> :
        i \in { k \in 1..Len(toks) : toks[k].kind = "ref" } }

EngineEdges(wb) ==
    UNION { { <<c, d>> : d \in EngineReads(wb, c) } : c \in FormulaCells(wb) }

\* the nodes reachable from the set S along the edges E
RECURSIVE ReachFrom(_, _)
ReachFrom(E, S) ==
    LET T == S \cup { e[2] : e \in { x \in E : x[1] \in S } } IN
    IF T = S THEN S ELSE ReachFrom(E, T)

\* some edge lies on a directed cycle
HasDirectedCycle(E) == \E e \in E : e[1] \in ReachFrom(E, {e[2]})

\* messages of failures that are no circular dependency: the engine names
\* the function it does not know
OtherMessages == { "Function FOO not found", "Function CIRCULAR not found" }

\* what one run of the engine can do: complete (cause "none") when no cell
\* depends on itself, fail on a circular dependency when one does, or fail
\* for another reason when there is a formula to fail on
EngineOutcomes(wb) ==
    (IF HasDirectedCycle(EngineEdges(wb))
     THEN { [cause |-> "circular", message |-> "Circular ref"] }
     ELSE { [cause |-> "none", message |-> ""] })
    \cup (IF FormulaCells(wb) = {} THEN {}
          ELSE { [cause |-> "other", message |-> m] : m \in OtherMessages })

\* message.toLowerCase().includes("circular")
includesCircular(message) ==
    message \in { "Circular ref", "Function CIRCULAR not found" }

\* ------------------------------------------------- evaluation orchestrator

\* what the catch block of evaluateWorkbook does with the engine's message,
\* handler.ts 619-630: "throw", or "continue" with the graph it has built
classifyFailureBug(message, ignoreCircular) == "throw"
classifyFailure(message, ignoreCircular) ==
    IF includesCircular(message)
    THEN IF ~ignoreCircular THEN "throw" ELSE "continue"
    ELSE "throw"

\* the tail of evaluateWorkbook, handler.ts 633-645
finishReportBug(wb, now, g, circular) ==
    Returned(wb, now, [evaluated |-> GraphKeys(g), circular |-> circular,
                       errors |-> << >>])
finishReport(wb, now, g, circular) ==
    Returned(wb, now,
             [evaluated |-> GraphKeys(g),
              circular |-> IF Len(circular) = 0
                           THEN detectCircularReferences(wb, Some(g))
                           ELSE circular,
              errors |-> << >>])

evaluateWorkbookBug(wb, ts, ignoreCircular, outcome, now) ==
    IF outcome.cause = "none"
    THEN finishReport(wb, now, buildFormulaGraph(wb), << >>)
    ELSE IF classifyFailure(outcome.message, ignoreCircular) = "throw"
    THEN Threw(wb, now, "Formula evaluation failed: " \o outcome.message)
    ELSE LET g == buildFormulaGraph(wb) IN
         finishReport(wb, now, g, detectCircularReferences(wb, Some(g)))

\* evaluateWorkbook, handler.ts 605-646; outcome is what the engine does
\* this time and now the clock's reading
evaluateWorkbook(wb, ts, ignoreCircular, outcome, now) ==
    IF outcome.cause = "none"
    THEN finishReport(wb, now, buildFormulaGraph(wb), << >>)
    ELSE IF classifyFailure(outcome.message, ignoreCircular) = "throw"
    THEN Threw(wb, ts, "Formula evaluation failed: " \o outcome.message)
    ELSE LET g == buildFormulaGraph(wb) IN
         finishReport(wb, now, g, detectCircularReferences(wb, Some(g)))

\* report.circular.some((entry) => entry.path.includes(address))
isCircularBug(report, address) == report.circular # << >>
isCircular(report, address) ==
    \E i \in 1..Len(report.circular) : address \in Range(report.circular[i].path)

\* baseCell?.formula
formulaOf(cellView) ==
    IF cellView = Undefined THEN Undefined ELSE cellView[1].formula

\* evaluateCellFormula, handler.ts 648-703
evaluateCellFormula(wb, ts, sheet, row, column, outcome, now) ==
    LET sheetName == resolveSheetName(wb, sheet)
        address == sheetName \o <<encode_cell(row - 1, column - 1)>>
        baseCell == getCellValue(wb, ts, sheet, row, column)
    IN
    IF baseCell.threw THEN baseCell
    ELSE
        LET run == evaluateWorkbook(wb, ts, TRUE, outcome, now) IN
        IF run.threw
        THEN Returned(run.wb, run.ts,
                      [address |-> address, sheet |-> sheetName,
                       formula |-> formulaOf(baseCell.value),
                       error |-> Some(run.error)])
        ELSE
            LET evaluatedCell == getCellValue(run.wb, run.ts, sheet, row, column) IN
            IF evaluatedCell.value = Undefined
            THEN Returned(run.wb, run.ts,
                          [address |-> address, sheet |-> sheetName,
                           formula |-> formulaOf(baseCell.value),
                           error |-> Some("Cell not found.")])
            ELSE Returned(run.wb, run.ts,
                          [address |-> address, sheet |-> sheetName,
                           formula |-> IF evaluatedCell.value[1].formula # Undefined
                                       THEN evaluatedCell.value[1].formula
                                       ELSE formulaOf(baseCell.value),
                           error |-> IF isCircular(run.value, address)
                                     THEN Some("Circular reference detected.")
                                     ELSE Undefined])

\* node.split("!")[0], the sheet a node is counted under
nodeSheet(node) == node[1]

\* ------------------------------------------------- custom-formula registry
\* customFormulaRegistry (handler.ts 40) is a Set of the module: its
\* elements in insertion order.  registered keeps beside it the names given
\* to the registration calls that returned.

\* the names callers give: none, lower case, upper case, one sorting after
\* the letters
FormulaNames == { "", "double", "DOUBLE", "TRIPLE", "_x" }

\* the UTF-16 code units of the names the registry can hold
CodeUnits(name) ==
    CASE name = "" -> << >>
      [] name = "DOUBLE" -> <<68, 79, 85, 66, 76, 69>>
      [] name = "TRIPLE" -> <<84, 82, 73, 80, 76, 69>>
      [] name = "_X" -> <<95, 88>>
      [] name = "double" -> <<100, 111, 117, 98, 108, 101>>
      [] name = "_x" -> <<95, 120>>

\* x < y as Array.prototype.sort compares strings with no comparator
RECURSIVE unitsBefore(_, _)
unitsBefore(x, y) ==
    IF y = << >> THEN FALSE
    ELSE IF x = << >> THEN TRUE
    ELSE IF x[1] # y[1] THEN x[1] < y[1]
    ELSE unitsBefore(Tail(x), Tail(y))

nameBefore(a, b) == unitsBefore(CodeUnits(a), CodeUnits(b))

\* Array.prototype.sort(): a stable insertion of each element in turn
RECURSIVE insertSorted(_, _)
insertSorted(sorted, name) ==
    IF sorted = << >> THEN <<name>>
    ELSE IF nameBefore(name, sorted[1]) THEN <<name>> \o sorted
    ELSE <<sorted[1]>> \o insertSorted(Tail(sorted), name)

RECURSIVE sortFrom(_, _, _)
sortFrom(names, i, sorted) ==
    IF i > Len(names) THEN sorted
    ELSE sortFrom(names, i + 1, insertSorted(sorted, names[i]))

sortNamesBug(names) == names
sortNames(names) == sortFrom(names, 1, << >>)

\* Set.prototype.add
registryAdd(registry, name) ==
    IF name \in Range(registry) THEN registry ELSE Append(registry, name)

\* typeof implementation
Implementations == { "function", "number" }

MaxEntries == 2

\* an ExcelFormulaMap: its own keys in the order Object.keys gives them
FormulaMaps ==
    { m \in UNION { [1..n -> [name : FormulaNames, implementation : Implementations]]
                      : n \in 0..MaxEntries } :
        \A i, j \in 1..Len(m) : m[i].name = m[j].name => i = j }

\* registerCustomFormula, handler.ts 1087-1097; XLSX_CALC.set_fx stores the
\* implementation under the name
registerCustomFormula(registry, name, implementation) ==
    IF name = "" \/ implementation # "function"
    THEN [threw |-> TRUE,
          error |-> "registerFormula requires a name and function implementation.",
          registry |-> registry]
    ELSE [threw |-> FALSE, registry |-> registryAdd(registry, toUpperCase(name))]

RECURSIVE addKeys(_, _, _)
addKeys(registry, formulas, i) ==
    IF i > Len(formulas) THEN registry
    ELSE addKeys(registryAdd(registry, toUpperCase(formulas[i].name)),
                 formulas, i + 1)

\* registerCustomFormulas, handler.ts 1099-1108.  engineThrows is what
\* XLSX_CALC.import_functions does with the map; when it returns, every key
\* is added.
registerCustomFormulas(registry, formulas, engineThrows) ==
    IF formulas = Undefined THEN [threw |-> FALSE, registry |-> registry]
    ELSE IF engineThrows
    THEN [threw |-> TRUE, error |-> "import_functions", registry |-> registry]
    ELSE [threw |-> FALSE, registry |-> addKeys(registry, formulas[1], 1)]

\* summarizeFormulas, handler.ts 800-817
summarizeFormulasBug(wb, ts, registry) ==
    Returned([wb EXCEPT !.SheetNames = << >>], ts,
             [totalFormulas |-> 0, sheetsWithFormulas |-> 0,
              circularReferences |-> 0, lastEvaluatedAt |-> ts,
              customFormulas |-> sortNames(registry)])
summarizeFormulas(wb, ts, registry) ==
    LET g == buildFormulaGraph(wb)
        circular == detectCircularReferences(wb, Some(g))
        sheets == { nodeSheet(g[i].node) : i \in 1..Len(g) }
    IN Returned(wb, ts,
                [totalFormulas |-> Len(g),
                 sheetsWithFormulas |-> Cardinality(sheets),
                 circularReferences |-> Len(circular),
                 lastEvaluatedAt |-> ts,
                 customFormulas |-> sortNames(registry)])

\* ---------------------------------------------------------- asset resolver
\* createAssetExtractors, handler.ts 819-1085.  One closure per handle
\* (handler.ts 48-63: open reads the buffer once and makes one closure).

Handles == {1, 2}
Queries == {"charts", "images", "macros"}

\* The buffer as the resolver sees it.  kind: a zip archive or not (an .xls
\* or a text file also opens as a workbook).  manifest: xl/workbook.xml.
\* sheet: whether the part of the one sheet holds a <drawing r:id>.
\* sheetRels, drawing, drawingRels, chart, vba: the parts down the chain,
\* "absent", "unreadable" (its async read rejects) or what they hold.  The
\* parts XLSX.read has read to open the workbook (manifest, sheet) are
\* readable.
ChartArchive ==
    [kind |-> "zip", manifest |-> "ok", sheet |-> "drawing", sheetRels |-> "ok",
     drawing |-> "chart", drawingRels |-> "ok", chart |-> "bar", vba |-> "absent"]

PlainArchive ==
    [ChartArchive EXCEPT !.sheet = "plain", !.sheetRels = "absent",
                         !.drawing = "absent", !.drawingRels = "absent",
                         !.chart = "absent"]

NotAnArchive == [PlainArchive EXCEPT !.kind = "other"]

Archives ==
    { NotAnArchive, PlainArchive, [PlainArchive EXCEPT !.manifest = "absent"] }
      \cup { [PlainArchive EXCEPT !.vba = v] : v \in {"modules", "mixed", "empty", "unreadable"} }
      \cup { [ChartArchive EXCEPT !.sheetRels = v] : v \in {"ok", "absent", "unreadable"} }
      \cup { [ChartArchive EXCEPT !.drawing = v] : v \in {"image", "absent", "unreadable"} }
      \cup { [ChartArchive EXCEPT !.drawingRels = v] : v \in {"absent", "unreadable"} }
      \cup { [ChartArchive EXCEPT !.chart = v] : v \in {"absent", "unreadable"} }
      \cup { [ChartArchive EXCEPT !.drawing = "image", !.drawingRels = v] :
               v \in {"absent", "unreadable"} }

\* a promise cell of the closure: not yet assigned, pending (at is the await
\* the async function stands at), resolved with a value, or rejected
Unset == [state |-> "unset"]
Pending(at) == [state |-> "pending", at |-> at]
Resolved(value) == [state |-> "resolved", value |-> value]
Rejected == [state |-> "rejected"]
Settled(promise) == promise.state \in {"resolved", "rejected"}

\* createAssetExtractors(buffer, workbook): nothing assigned, nothing run
FreshAssets ==
    [zipPromise |-> Unset, sheetEntriesPromise |-> Unset,
     charts |-> Unset, images |-> Unset, macros |-> Unset,
     loads |-> [q \in Queries \cup {"zip", "sheetEntries"} |-> 0]]

\* JSZip.loadAsync(buffer).catch(() => null)
loadAsync(arch) == IF arch.kind = "zip" THEN Resolved("zip") ELSE Resolved("null")

\* getZip, handler.ts 824-829: the first call starts loading
getZip(a) ==
    IF a.zipPromise.state = "unset"
    THEN [a EXCEPT !.zipPromise = Pending("loadAsync"), !.loads["zip"] = @ + 1]
    ELSE a

\* workbook.SheetNames.map((name, index) => ({name, path}))
fallbackEntries(wb) ==
    [i \in 1..Len(wb.SheetNames) |-> [name |-> wb.SheetNames[i], sheet |-> i]]

\* the body of getSheetEntries once the zip is there, handler.ts 845-877
sheetEntries(arch, wb) ==
    IF arch.manifest = "ok"
    THEN Resolved(<<[name |-> <<"Sheet1">>, sheet |-> 1]>>)
    ELSE Resolved(fallbackEntries(wb))

\* getSheetEntries, handler.ts 835-882: the first call starts the body
getSheetEntries(a) ==
    IF a.sheetEntriesPromise.state = "unset"
    THEN [a EXCEPT !.sheetEntriesPromise = Pending("getZip"),
                   !.loads["sheetEntries"] = @ + 1]
    ELSE a

\* the walk from a sheet entry to the anchors of its drawing, handler.ts
\* 904-941 and 975-1012: "none" when the walk stops at a continue, "rejected"
\* when an awaited read rejects, else the kind of the anchor
walkToAnchors(arch, entry) ==
    IF entry.sheet # 1 THEN "none"
    ELSE IF arch.sheet = "plain" THEN "none"
    ELSE IF arch.sheetRels = "unreadable" THEN "rejected"
    ELSE IF arch.sheetRels = "absent" THEN "none"
    ELSE IF arch.drawing = "absent" THEN "none"
    ELSE IF arch.drawing = "unreadable" THEN "rejected"
    ELSE IF arch.drawingRels = "unreadable" THEN "rejected"
    ELSE arch.drawing

\* the anchors loop of loadCharts for one sheet, handler.ts 943-959
chartsOfSheet(arch, entry) ==
    LET walk == walkToAnchors(arch, entry) IN
    IF walk = "rejected" THEN Rejected
    ELSE IF walk # "chart" THEN Resolved(<< >>)
    ELSE IF arch.drawingRels = "absent" THEN Resolved(<< >>)
    ELSE IF arch.chart = "unreadable" THEN Rejected
    ELSE Resolved(<<[sheet |-> entry.name,
                     type |-> IF arch.chart = "absent" THEN "undefined"
                              ELSE arch.chart]>>)

\* the anchors loop of loadImages for one sheet, handler.ts 1014-1029
imagesOfSheet(arch, entry) ==
    LET walk == walkToAnchors(arch, entry) IN
    IF walk = "rejected" THEN Rejected
    ELSE IF walk # "image" THEN Resolved(<< >>)
    ELSE IF arch.drawingRels = "absent" THEN Resolved(<< >>)
    ELSE Resolved(<<[sheet |-> entry.name, mediaType |-> "image/png"]>>)

\* for (const sheet of sheets): the results of the sheets in order, or the
\* first rejection
RECURSIVE overSheets(_, _, _, _, _)
overSheets(isCharts, arch, entries, i, results) ==
    IF i > Len(entries) THEN Resolved(results)
    ELSE LET one == IF isCharts THEN chartsOfSheet(arch, entries[i])
                    ELSE imagesOfSheet(arch, entries[i])
         IN IF one.state = "rejected" THEN Rejected
            ELSE overSheets(isCharts, arch, entries, i + 1, results \o one.value)

\* the literals loadMacros looks for, and its two placeholder names
ModuleLiteral == <<"M", "o", "d", "u", "l", "e", "=">>
SheetLiteral == <<"S", "h", "e", "e", "t">>
ThisWorkbookLiteral == <<"T", "h", "i", "s", "W", "o", "r", "k", "b", "o", "o", "k">>
VBAProjectName == <<"V", "B", "A", "P", "r", "o", "j", "e", "c", "t">>
UnknownModule == <<"U", "n", "k", "n", "o", "w", "n">>

\* [A-Za-z0-9_] over the characters of the parts
ModuleNameCharacters ==
    WordCharacters
      \cup { "M", "S", "T", "W", "d", "e", "h", "i", "k", "l", "o", "r", "t", "u" }

\* the folding of the i flag of a regular expression
caseFold(c) ==
    CASE c = "M" -> "m"
      [] c = "S" -> "s"
      [] c = "W" -> "w"
      [] OTHER -> charToLowerCase(c)

\* the literal stands in text at position p (fold: whatever the case)
literalAt(text, p, literal, fold) ==
    /\ p + Len(literal) - 1 <= Len(text)
    /\ \A i \in 1..Len(literal) :
          IF fold THEN caseFold(text[p + i - 1]) = caseFold(literal[i])
          ELSE text[p + i - 1] = literal[i]

\* String.prototype.includes
includes(text, literal) == \E p \in 1..(Len(text) + 1) : literalAt(text, p, literal, FALSE)

\* Set.prototype.add on a Set kept in insertion order
addModuleBug(modules, name) == Append(modules, name)
addModule(modules, name) ==
    IF \E i \in 1..Len(modules) : modules[i] = name THEN modules
    ELSE Append(modules, name)

\* the loop over /Module=([A-Za-z0-9_]+)/gi, handler.ts 1052-1056
RECURSIVE scanModules(_, _, _)
scanModules(text, p, modules) ==
    IF p > Len(text) THEN modules
    ELSE LET n == IF literalAt(text, p, ModuleLiteral, TRUE)
                  THEN runLength(text, p + Len(ModuleLiteral), ModuleNameCharacters)
                  ELSE 0
         IN IF n > 0
            THEN scanModules(text, p + Len(ModuleLiteral) + n,
                             addModule(modules, Slice(text, p + Len(ModuleLiteral), n)))
            ELSE scanModules(text, p + 1, modules)

\* the loop over /Sheet\d+/gi, handler.ts 1062-1066
RECURSIVE scanSheets(_, _, _)
scanSheets(text, p, modules) ==
    IF p > Len(text) THEN modules
    ELSE LET n == IF literalAt(text, p, SheetLiteral, TRUE)
                  THEN runLength(text, p + Len(SheetLiteral), Digits)
                  ELSE 0
         IN IF n > 0
            THEN scanSheets(text, p + Len(SheetLiteral) + n,
                            addModule(modules, Slice(text, p, Len(SheetLiteral) + n)))
            ELSE scanSheets(text, p + 1, modules)

\* the try block of loadMacros on the text of the part, handler.ts 1048-1075
scanMacros(text) ==
    LET named == scanModules(text, 1, << >>)
        withBook == IF includes(text, ThisWorkbookLiteral)
                    THEN addModule(named, ThisWorkbookLiteral) ELSE named
        withSheets == scanSheets(text, 1, withBook)
        modules == IF Len(withSheets) = 0 THEN addModule(withSheets, VBAProjectName)
                   ELSE withSheets
    IN [ i \in 1..Len(modules) |-> [module |-> "VBAProject", name |-> modules[i]] ]

\* the parts xl/vbaProject.bin of the model: the text read as latin1 and the
\* names that stand in it
VbaParts ==
    { \* "Module= Sheet": no name after the literal, no digit after Sheet
      [text |-> ModuleLiteral \o <<" ">> \o SheetLiteral, names |-> { }],
      \* "Module=Module1"
      [text |-> ModuleLiteral \o <<"M", "o", "d", "u", "l", "e", "1">>,
       names |-> { <<"M", "o", "d", "u", "l", "e", "1">> }],
      \* "module=Sheet1 ThisWorkbook sheet2Sheet1"
      [text |-> <<"m", "o", "d", "u", "l", "e", "=">> \o SheetLiteral \o <<"1", " ">>
                  \o ThisWorkbookLiteral
                  \o <<" ", "s", "h", "e", "e", "t", "2">> \o SheetLiteral \o <<"1">>,
       names |-> { SheetLiteral \o <<"1">>, ThisWorkbookLiteral,
                   <<"s", "h", "e", "e", "t", "2">> }],
      \* ""
      [text |-> << >>, names |-> { }],
      \* "Sheet12Module=a_1=Module="
      [text |-> SheetLiteral \o <<"1", "2">> \o ModuleLiteral \o <<"a", "_", "1", "=">>
                  \o ModuleLiteral,
       names |-> { <<"a", "_", "1">>, SheetLiteral \o <<"1", "2">> }],
      \* "thisworkbook"
      [text |-> <<"t", "h", "i", "s", "w", "o", "r", "k", "b", "o", "o", "k">>,
       names |-> { }],
      \* "Module=ThisWorkbook"
      [text |-> ModuleLiteral \o ThisWorkbookLiteral, names |-> { ThisWorkbookLiteral }] }

\* the text of the part of an archive
vbaText(vba) ==
    IF vba = "empty" THEN ModuleLiteral \o <<" ">> \o SheetLiteral
    ELSE IF vba = "modules" THEN ModuleLiteral \o <<"M", "o", "d", "u", "l", "e", "1">>
    ELSE <<"m", "o", "d", "u", "l", "e", "=">> \o SheetLiteral \o <<"1", " ">>
           \o ThisWorkbookLiteral
           \o <<" ", "s", "h", "e", "e", "t", "2">> \o SheetLiteral \o <<"1">>

\* loadMacros once the zip is there, handler.ts 1042-1083
macrosOfBug(arch) ==
    IF arch.vba = "absent" THEN Resolved(<<[module |-> "VBAProject", name |-> UnknownModule]>>)
    ELSE Resolved(<< >>)
macrosOf(arch) ==
    IF arch.vba = "absent" THEN Resolved(<< >>)
    ELSE IF arch.vba = "unreadable"
    THEN Resolved(<<[module |-> "VBAProject", name |-> UnknownModule]>>)
    ELSE Resolved(scanMacros(vbaText(arch.vba)))

\* the closure a handle's queries read and write
closureOfBug(h) == 1
closureOf(h) == h

\* callers waiting and results given, per handle and query
NoCalls ==
    [h \in Handles |-> [q \in Queries |-> [made |-> 0, waiting |-> 0, given |-> {}]]]

\* ------------------------------------------------------------ core registry
\* registry.ts: registry.byType and registry.byExtension are Maps, kept as
\* the sequences of their entries in insertion order.  An extension and a
\* path are kept character by character.

EmptyMap == << >>
MapHas(m, key) == \E i \in 1..Len(m) : m[i].key = key
MapGet(m, key) ==
    IF MapHas(m, key)
    THEN Some(m[CHOOSE i \in 1..Len(m) : m[i].key = key].value)
    ELSE Undefined
MapSet(m, key, value) ==
    IF MapHas(m, key)
    THEN [ i \in 1..Len(m) |-> IF m[i].key = key THEN [key |-> key, value |-> value]
                               ELSE m[i] ]
    ELSE Append(m, [key |-> key, value |-> value])

EmptyRegistry == [byType |-> EmptyMap, byExtension |-> EmptyMap]

\* String.prototype.toLowerCase
toLowerCase(text) == [ i \in 1..Len(text) |-> charToLowerCase(text[i]) ]

\* the buffers opened: one both signatures fit, one a text handler takes,
\* one nothing takes
Buffers == { "zip", "plain", "unknown" }

\* createExcelHandler(), handler.ts 43-67, with EXCEL_EXTENSIONS (37) and
\* what detectExcelSource (75-87) answers for the buffers
ExcelHandler ==
    [id |-> "excel", type |-> "excel",
     extensions |-> << <<"x", "l", "s">>, <<"x", "l", "s", "x">>,
                       <<"x", "l", "s", "m">>, <<"x", "l", "s", "b">> >>,
     hasDetect |-> TRUE, accepts |-> {"zip"}]

\* createTestHandler(), index.test.ts 7-45: it takes every buffer it is given
TextHandler ==
    [id |-> "text", type |-> "text",
     extensions |-> << <<"t", "x", "t">>, <<"m", "d">> >>,
     hasDetect |-> TRUE, accepts |-> {"zip", "plain"}]

\* other handlers callers register: one without detect hook whose second
\* extension is the text handler's in upper case, one of the type "excel"
CsvHandler ==
    [id |-> "csv", type |-> "csv",
     extensions |-> << <<"c", "s", "v">>, <<"T", "X", "T">> >>,
     hasDetect |-> FALSE, accepts |-> {}]

SheetHandler ==
    [id |-> "sheet", type |-> "excel",
     extensions |-> << <<"c", "s", "v">> >>,
     hasDetect |-> TRUE, accepts |-> {"plain"}]

Handlers == { ExcelHandler, TextHandler, CsvHandler, SheetHandler }

FileTypes == { "excel", "text", "csv" }

\* the messages of the registry, and message.includes("already registered")
TypeRegistered == "Handler for type is already registered."
ExtensionRegistered == "Handler for extension is already registered."
includesAlreadyRegistered(message) ==
    message \in { TypeRegistered, ExtensionRegistered }

\* handler.extensions.forEach, registry.ts 55-62: the first extension already
\* there throws, after the ones before it were set
RECURSIVE setExtensionsBug(_, _, _)
setExtensionsBug(reg, handler, i) ==
    IF i > Len(handler.extensions) THEN [threw |-> FALSE, registry |-> reg]
    ELSE LET ext == toLowerCase(handler.extensions[i]) IN
         setExtensionsBug([reg EXCEPT !.byExtension = MapSet(@, ext, handler)],
                          handler, i + 1)

RECURSIVE setExtensions(_, _, _)
setExtensions(reg, handler, i) ==
    IF i > Len(handler.extensions) THEN [threw |-> FALSE, registry |-> reg]
    ELSE LET ext == toLowerCase(handler.extensions[i]) IN
         IF MapHas(reg.byExtension, ext)
         THEN [threw |-> TRUE, error |-> ExtensionRegistered, registry |-> reg]
         ELSE setExtensions([reg EXCEPT !.byExtension = MapSet(@, ext, handler)],
                            handler, i + 1)

\* registerFileType, registry.ts 49-63
registerFileType(reg, handler) ==
    IF MapHas(reg.byType, handler.type)
    THEN [threw |-> TRUE, error |-> TypeRegistered, registry |-> reg]
    ELSE setExtensions([reg EXCEPT !.byType = MapSet(@, handler.type, handler)],
                       handler, 1)

\* getHandlerByType, registry.ts 65-67
getHandlerByType(reg, type) == MapGet(reg.byType, type)

\* getHandlerByExtension, registry.ts 69-71
getHandlerByExtension(reg, extension) ==
    MapGet(reg.byExtension, toLowerCase(extension))

\* listRegisteredHandlers, registry.ts 73-75
listRegisteredHandlers(reg) == [ i \in 1..Len(reg.byType) |-> reg.byType[i].value ]

\* clearRegistry, registry.ts 77-81
clearRegistry(reg) == EmptyRegistry

\* String.prototype.trim
RECURSIVE trimStart(_)
trimStart(text) ==
    IF text # << >> /\ text[1] = " " THEN trimStart(Tail(text)) ELSE text
RECURSIVE trimEnd(_)
trimEnd(text) ==
    IF text # << >> /\ text[Len(text)] = " "
    THEN trimEnd(SubSeq(text, 1, Len(text) - 1)) ELSE text
trimText(text) == trimEnd(trimStart(text))

\* String.prototype.lastIndexOf("."), 1-based; 0 stands for -1
lastIndexOfDot(text) ==
    IF \E i \in 1..Len(text) : text[i] = "."
    THEN CHOOSE i \in 1..Len(text) :
             text[i] = "." /\ \A j \in (i + 1)..Len(text) : text[j] # "."
    ELSE 0

\* getExtensionFromPath, utils/path.ts 1-9
getExtensionFromPath(path) ==
    LET normalized == trimText(path)
        lastDotIndex == lastIndexOfDot(normalized)
    IN IF lastDotIndex = 0 \/ lastDotIndex = Len(normalized) THEN Undefined
       ELSE Some(toLowerCase(SubSeq(normalized, lastDotIndex + 1, Len(normalized))))

\* detectFromBuffer, index.ts 169-186
detectFromBuffer(reg, buffer) ==
    SelectSeq(listRegisteredHandlers(reg),
              LAMBDA handler : handler.hasDetect /\ buffer \in handler.accepts)

\* resolveHandler, index.ts 126-167: a handler, undefined, or an error
resolveHandlerBug(reg, source, type) ==
    IF type # Undefined
    THEN LET handler == getHandlerByType(reg, type[1]) IN
         IF handler = Undefined
         THEN [threw |-> TRUE, error |-> "No handler registered for type."]
         ELSE [threw |-> FALSE, value |-> handler]
    ELSE IF source.kind = "path"
    THEN LET extension == getExtensionFromPath(source.path) IN
         IF extension = Undefined
         THEN [threw |-> TRUE, error |-> "Unable to determine file type from path."]
         ELSE LET handler == getHandlerByExtension(reg, extension[1]) IN
              IF handler # Undefined THEN [threw |-> FALSE, value |-> handler]
              ELSE [threw |-> TRUE,
                    error |-> "No handler registered for files with extension."]
    ELSE LET detected == detectFromBuffer(reg, source.buffer) IN
         IF Len(detected) >= 1 THEN [threw |-> FALSE, value |-> Some(detected[1])]
         ELSE [threw |-> FALSE, value |-> Undefined]

resolveHandler(reg, source, type) ==
    IF type # Undefined
    THEN LET handler == getHandlerByType(reg, type[1]) IN
         IF handler = Undefined
         THEN [threw |-> TRUE, error |-> "No handler registered for type."]
         ELSE [threw |-> FALSE, value |-> handler]
    ELSE IF source.kind = "path"
    THEN LET extension == getExtensionFromPath(source.path) IN
         IF extension = Undefined
         THEN [threw |-> TRUE, error |-> "Unable to determine file type from path."]
         ELSE LET handler == getHandlerByExtension(reg, extension[1]) IN
              IF handler # Undefined THEN [threw |-> FALSE, value |-> handler]
              ELSE [threw |-> TRUE,
                    error |-> "No handler registered for files with extension."]
    ELSE LET detected == detectFromBuffer(reg, source.buffer) IN
         IF Len(detected) = 1 THEN [threw |-> FALSE, value |-> Some(detected[1])]
         ELSE IF Len(detected) > 1
         THEN [threw |-> TRUE, error |-> "Multiple handlers match the provided source."]
         ELSE [threw |-> FALSE, value |-> Undefined]

\* AnyFile.open up to the handler it opens with, index.ts 58-65
openWith(reg, source, type) ==
    LET handler == resolveHandler(reg, source, type) IN
    IF handler.threw THEN handler
    ELSE IF handler.value = Undefined
    THEN [threw |-> TRUE, error |-> "No handler registered for the provided source."]
    ELSE [threw |-> FALSE, value |-> handler.value[1].id]

\* ensureRegistered, excel index.ts 25-41: the flag and the registry after it
ensureRegistered(reg, flag) ==
    IF flag THEN [threw |-> FALSE, registry |-> reg, registered |-> flag]
    ELSE LET r == registerFileType(reg, ExcelHandler) IN
         IF r.threw /\ ~includesAlreadyRegistered(r.error)
         THEN [threw |-> TRUE, registry |-> r.registry, registered |-> flag]
         ELSE [threw |-> FALSE, registry |-> r.registry, registered |-> TRUE]

\* the registry once the Excel module is loaded: index.ts 104 calls
\* ensureRegistered()
ImportedRegistry == ensureRegistered(EmptyRegistry, FALSE).registry

\* ----------------------------------------------------------------- actions
\* One action per call of the API of createExcelFileData (handler.ts
\* 250-271).  res keeps the call and what it gave back.

Outcome(r) ==
    IF r.threw THEN [threw |-> TRUE, error |-> r.error]
    ELSE [threw |-> FALSE, value |-> r.value]

NoCall == [op |-> "none"]

\* a sheet given by name, or by an index inside or beyond the sheet list
SheetInputs ==
    { [kind |-> "name", name |-> n] : n \in SheetNameUniverse \cup {UnknownSheet} }
      \cup { [kind |-> "index", index |-> i] : i \in {0, 2} }

\* names to add: the names a workbook holds, one to be trimmed, a blank one
AddSheetInputs == SheetNameUniverse \cup { <<" Sheet1 ">>, <<"  ">> }

\* names to delete
DeleteSheetInputs == SheetNameUniverse \cup { UnknownSheet }

\* what setCell is given to write: a value alone (undefined, null or a
\* number), the same with a formula of "", or a formula text with the null
\* its callers pass beside it
WriteInputs ==
    { <<v, f>> : v \in ValueInputs, f \in { Undefined, Some(EmptyText) } }
      \cup { <<"null", Some(t)>> : t \in FormulaTexts }

\* the calls of setCell: every sheet, cell and write, and the two positions
\* that are not 1-based
SetCellInputs ==
    { <<sheet, rc, w>> : sheet \in SheetInputs, rc \in Rows \X Columns, w \in WriteInputs }
      \cup { <<[kind |-> "index", index |-> 0], rc, <<"num", Undefined>> >> :
               rc \in { <<0, 1>>, <<1, 0>> } }

CellInputs == Rows \X Columns

\* options.ignoreCircular: left out, false or true
IgnoreCircularInputs == { "omitted", "false", "true" }

\* the readings the clock can give once it has given ts
ClockReadings(ts) == (IF ts = 0 THEN 1 ELSE ts)..MaxClock

Apply(r, call) ==
    /\ workbook' = r.wb
    /\ lastEvaluationTimestamp' = r.ts
    /\ res' = [call EXCEPT !.out = Outcome(r)]
    /\ UNCHANGED <<graph, found, assetVars, registryVars, coreVars>>

\* file.setCell(sheet, row, column, value, { formula })
setCell ==
    \E call \in SetCellInputs :
        LET r == setCellValue(workbook, lastEvaluationTimestamp, call[1],
                              call[2][1], call[2][2], call[3][1], call[3][2])
        IN /\ CellCount(r.wb) <= MaxCells
           /\ Apply(r, [op |-> "setCell", out |-> NoCall])

addSheet ==
    \E name \in AddSheetInputs :
        Apply(addWorksheet(workbook, lastEvaluationTimestamp, name),
              [op |-> "addSheet", out |-> NoCall])

deleteSheet ==
    \E name \in DeleteSheetInputs :
        Apply(deleteWorksheet(workbook, lastEvaluationTimestamp, name),
              [op |-> "deleteSheet", out |-> NoCall])

findCircularReferences ==
    Apply(Returned(workbook, lastEvaluationTimestamp,
                   detectCircularReferences(workbook, Undefined)),
          [op |-> "findCircularReferences", out |-> NoCall])

getFormulaSummary ==
    Apply(summarizeFormulas(workbook, lastEvaluationTimestamp,
                            customFormulaRegistry),
          [op |-> "getFormulaSummary", out |-> NoCall])

\* file.evaluateAll(options); res keeps the option and what the engine did
evaluateAll ==
    \E option \in IgnoreCircularInputs, outcome \in EngineOutcomes(workbook),
       now \in ClockReadings(lastEvaluationTimestamp) :
        Apply(evaluateWorkbook(workbook, lastEvaluationTimestamp,
                               option = "true", outcome, now),
              [op |-> "evaluateAll", ignoreCircular |-> option,
               cause |-> outcome.cause, message |-> outcome.message,
               out |-> NoCall])

\* file.evaluateCell(sheet, row, column)
evaluateCell ==
    \E sheet \in SheetInputs, rc \in CellInputs,
       outcome \in EngineOutcomes(workbook),
       now \in ClockReadings(lastEvaluationTimestamp) :
        Apply(evaluateCellFormula(workbook, lastEvaluationTimestamp,
                                  sheet, rc[1], rc[2], outcome, now),
              [op |-> "evaluateCell",
               cause |-> outcome.cause, message |-> outcome.message,
               out |-> NoCall])

\* ---- editing a workbook: the sheet and cell helpers and the graph queries

InitWorkbook ==
    [SheetNames |-> << <<"Sheet1">> >>,
     Sheets |-> [n \in { <<"Sheet1">> } |-> EmptySheet]]

Init ==
    /\ workbook = InitWorkbook
    /\ lastEvaluationTimestamp = 0
    /\ res = NoCall
    /\ graph = EmptyGraph
    /\ found = Undefined
    /\ archive = [h \in Handles |-> NotAnArchive]
    /\ assets = [h \in Handles |-> FreshAssets]
    /\ calls = NoCalls
    /\ customFormulaRegistry = << >>
    /\ registered = {}
    /\ coreRegistry = ImportedRegistry
    /\ excelRegistered = TRUE

Next ==
    \/ setCell
    \/ addSheet
    \/ deleteSheet
    \/ findCircularReferences
    \/ getFormulaSummary

Spec == Init /\ [][Next]_vars

\* ---- evaluating a workbook: the evaluation calls are made on a handle
\* whose workbook is any of those the editing calls can leave behind

\* the cells a file can hold: a plain value, or a formula
CellUniverse == { [f |-> Undefined] } \cup { [f |-> Some(t)] : t \in FormulaTexts }

\* the worksheets over the addresses of the model, in every key order
WorksheetUniverse ==
    { << >> }
      \cup { <<[addr |-> a, cell |-> c]>> : a \in Addresses, c \in CellUniverse }
      \cup { <<[addr |-> a, cell |-> c], [addr |-> b, cell |-> d]>> :
               a \in Addresses, b \in Addresses, c \in CellUniverse, d \in CellUniverse }

SheetLists ==
    { << >> } \cup { <<n>> : n \in SheetNameUniverse }
      \cup { <<n, m>> : n \in SheetNameUniverse, m \in SheetNameUniverse }

NoDuplicates(s) == \A i, j \in 1..Len(s) : s[i] = s[j] => i = j

WorkbookUniverse ==
    { wb \in UNION { [SheetNames : {names},
                      Sheets : [Range(names) -> WorksheetUniverse]] :
                     names \in SheetLists } :
        /\ NoDuplicates(wb.SheetNames)
        /\ \A n \in DOMAIN wb.Sheets :
              NoDuplicates([j \in 1..Len(wb.Sheets[n]) |-> wb.Sheets[n][j].addr])
        /\ CellCount(wb) <= MaxCells }

InitEvaluate ==
    /\ workbook \in WorkbookUniverse
    /\ lastEvaluationTimestamp = 0
    /\ res = NoCall
    /\ graph = EmptyGraph
    /\ found = Undefined
    /\ archive = [h \in Handles |-> NotAnArchive]
    /\ assets = [h \in Handles |-> FreshAssets]
    /\ calls = NoCalls
    /\ customFormulaRegistry = << >>
    /\ registered = {}
    /\ coreRegistry = ImportedRegistry
    /\ excelRegistered = TRUE

NextEvaluate ==
    \/ evaluateAll
    \/ evaluateCell

SpecEvaluate == InitEvaluate /\ [][NextEvaluate]_vars

\* ---- asset queries: two handles, each opened on its own buffer

CallsMade ==
    LET RECURSIVE Sum(_)
        Sum(S) == IF S = {} THEN 0
                  ELSE LET x == CHOOSE y \in S : TRUE
                       IN calls[x[1]][x[2]].made + Sum(S \ {x})
    IN Sum(Handles \X Queries)

AssetStep(newAssets, newCalls) ==
    /\ assets' = newAssets
    /\ calls' = newCalls
    /\ UNCHANGED <<workbook, lastEvaluationTimestamp, res, graph, found,
                   archive, registryVars,
                   coreVars>>

\* async () => (promise ??= load()), handler.ts 889-891: the first call runs
\* the load up to its await of getZip(); every call waits for the promise
callQuery(h, q) ==
    LET c == closureOf(h)
        a == assets[c]
        started == IF a[q].state = "unset"
                   THEN getZip([a EXCEPT ![q] = Pending("getZip"),
                                         !.loads[q] = @ + 1])
                   ELSE a
    IN /\ CallsMade < MaxCalls
       /\ AssetStep([assets EXCEPT ![c] = started],
                    [calls EXCEPT ![h][q].made = @ + 1, ![h][q].waiting = @ + 1])

getCharts == \E h \in Handles : callQuery(h, "charts")

getImages == \E h \in Handles : callQuery(h, "images")

listMacros == \E h \in Handles : callQuery(h, "macros")

\* JSZip.loadAsync(buffer) settles
zipSettles ==
    \E c \in Handles :
        /\ assets[c].zipPromise.state = "pending"
        /\ AssetStep([assets EXCEPT ![c].zipPromise = loadAsync(archive[c])], calls)

\* a load goes on after `await getZip()`: handler.ts 895-900, 967-972,
\* 1037-1083
loadResumes ==
    \E c \in Handles, q \in Queries :
        LET a == assets[c] IN
        /\ a[q] = Pending("getZip")
        /\ a.zipPromise.state = "resolved"
        /\ AssetStep(
             [assets EXCEPT ![c] =
                 IF a.zipPromise.value = "null" THEN [a EXCEPT ![q] = Resolved(<< >>)]
                 ELSE IF q = "macros" THEN [a EXCEPT ![q] = macrosOf(archive[c])]
                 ELSE getSheetEntries([a EXCEPT ![q] = Pending("getSheetEntries")])],
             calls)

\* the body of getSheetEntries goes on after `await getZip()`
sheetEntriesSettle ==
    \E c \in Handles :
        LET a == assets[c] IN
        /\ a.sheetEntriesPromise = Pending("getZip")
        /\ a.zipPromise.state = "resolved"
        /\ AssetStep(
             [assets EXCEPT ![c].sheetEntriesPromise =
                 IF a.zipPromise.value = "null"
                 THEN Resolved(fallbackEntries(workbook))
                 ELSE sheetEntries(archive[c], workbook)],
             calls)

\* loadCharts or loadImages goes on after `await getSheetEntries()` and walks
\* the sheets
loadFinishes ==
    \E c \in Handles, q \in {"charts", "images"} :
        LET a == assets[c] IN
        /\ a[q] = Pending("getSheetEntries")
        /\ a.sheetEntriesPromise.state = "resolved"
        /\ AssetStep(
             [assets EXCEPT ![c][q] =
                 overSheets(q = "charts", archive[c],
                            a.sheetEntriesPromise.value, 1, << >>)],
             calls)

\* a caller gets what the promise settled to
callSettles ==
    \E h \in Handles, q \in Queries :
        /\ calls[h][q].waiting > 0
        /\ Settled(assets[closureOf(h)][q])
        /\ AssetStep(assets,
                     [calls EXCEPT ![h][q].waiting = @ - 1,
                                   ![h][q].given = @ \cup {assets[closureOf(h)][q]}])

\* the buffers of the second handle: no archive, one with a chart, one with
\* macros
SecondArchives == { NotAnArchive, ChartArchive, [PlainArchive EXCEPT !.vba = "modules"] }

InitAssets ==
    /\ workbook = InitWorkbook
    /\ lastEvaluationTimestamp = 0
    /\ res = NoCall
    /\ graph = EmptyGraph
    /\ found = Undefined
    /\ archive \in { f \in [Handles -> Archives] : f[2] \in SecondArchives }
    /\ assets = [h \in Handles |-> FreshAssets]
    /\ calls = NoCalls
    /\ customFormulaRegistry = << >>
    /\ registered = {}
    /\ coreRegistry = ImportedRegistry
    /\ excelRegistered = TRUE

NextAssets ==
    \/ getCharts
    \/ getImages
    \/ listMacros
    \/ zipSettles
    \/ loadResumes
    \/ sheetEntriesSettle
    \/ loadFinishes
    \/ callSettles

SpecAssets == InitAssets /\ [][NextAssets]_vars

\* ------------------------------------------------ the detector on any graph
\* The graphs buildFormulaGraph can hand to the detector, built the way it
\* builds them: a key is set, then its dependencies are added in order.  A
\* node is a cell's name; the detector only compares nodes, so the k-th key
\* set is the k-th cell of the first row of Sheet1, and the nodes that are no
\* keys are the leaves.

NodeName(k) == <<"Sheet1", encode_cell(0, k - 1)>>

Nodes == { NodeName(k) : k \in 1..MaxNodes }

EdgeCount(g) ==
    LET RECURSIVE Sum(_)
        Sum(i) == IF i > Len(g) THEN 0 ELSE Len(g[i].deps) + Sum(i + 1)
    IN Sum(1)

\* graph.set(node, new Set())
GraphSet ==
    /\ Len(graph) < MaxNodes
    /\ graph' = GraphSetNew(graph, NodeName(Len(graph) + 1))
    /\ found' = Undefined
    /\ UNCHANGED <<workbook, lastEvaluationTimestamp, res, assetVars, registryVars,
                   coreVars>>

\* refs.forEach((ref) => deps.add(ref)), one ref at a time
DepsAdd ==
    /\ Len(graph) >= 1
    /\ EdgeCount(graph) < MaxEdges
    /\ \E ref \in Nodes :
          /\ ref \notin Range(graph[Len(graph)].deps)
          /\ graph' = GraphAddDep(graph, graph[Len(graph)].node, ref)
    /\ found' = Undefined
    /\ UNCHANGED <<workbook, lastEvaluationTimestamp, res, assetVars, registryVars,
                   coreVars>>

\* detectCircularReferences(workbook, graph)
Detect ==
    /\ found = Undefined
    /\ found' = Some(detectCircularReferences(workbook, Some(graph)))
    /\ UNCHANGED <<workbook, lastEvaluationTimestamp, res, graph,
                   assetVars, registryVars,
                   coreVars>>

NextDetector ==
    \/ GraphSet
    \/ DepsAdd
    \/ Detect

SpecDetector == Init /\ [][NextDetector]_vars


\* ------------------------------------------------ properties of the detector

\* the edges of a graph: key -> dependency
GraphEdges(g) ==
    UNION { { <<g[i].node, d>> : d \in Range(g[i].deps) } : i \in 1..Len(g) }

\* every node named by the paths of a list of cycle records
PathNodes(cycles) == UNION { Range(cycles[i].path) : i \in 1..Len(cycles) }

\* the workbook of the examples: Sheet1 with the given formula cells
SheetOf(entries) ==
    [SheetNames |-> << <<"Sheet1">> >>,
     Sheets |-> [n \in { <<"Sheet1">> } |-> entries]]

RefTo(addr) == Some(Text(<<[kind |-> "ref", qual |-> NoQualifier, addr |-> addr]>>))

\* A1 = B1, B1 = A1
MutualWorkbook ==
    SheetOf(<<[addr |-> "A1", cell |-> [f |-> RefTo("B1")]],
              [addr |-> "B1", cell |-> [f |-> RefTo("A1")]]>>)

\* A1 = A1
SelfReferenceWorkbook == SheetOf(<<[addr |-> "A1", cell |-> [f |-> RefTo("A1")]]>>)

\* C5: the detector returns a non-empty list exactly when the graph has a
\* directed cycle (a self-loop is one), whatever the order of keys and
\* dependencies; when two nodes depend on each other, both are named by the
\* returned paths.
C5_NonEmptyIffCycle ==
    found # Undefined =>
        /\ (found[1] # << >>) <=> HasDirectedCycle(GraphEdges(graph))
        /\ \A a \in Nodes, b \in Nodes :
              (a # b /\ {<<a, b>>, <<b, a>>} \subseteq GraphEdges(graph))
                  => {a, b} \subseteq PathNodes(found[1])

\* C5 happens: the graph of A1 = B1, B1 = A1 was searched and both cells
\* are named
C5_Witness ==
    /\ found # Undefined
    /\ graph = buildFormulaGraph(MutualWorkbook)
    /\ {NodeName(1), NodeName(2)} \subseteq PathNodes(found[1])

\* C5 also happens on the other side: a graph with edges and no cycle
C5_WitnessAcyclic ==
    /\ found = Some(<< >>)
    /\ EdgeCount(graph) >= 2

\* C6: every returned path has at least two entries, ends where it starts,
\* repeats no other entry, follows edges of the graph from entry to entry,
\* and names keys of the graph only.
C6_PathsAreCycles ==
    found # Undefined =>
        \A c \in 1..Len(found[1]) :
            LET path == found[1][c].path IN
            /\ Len(path) >= 2
            /\ path[1] = path[Len(path)]
            /\ \A i, j \in 1..(Len(path) - 1) : path[i] = path[j] => i = j
            /\ \A i \in 1..(Len(path) - 1) :
                  <<path[i], path[i + 1]>> \in GraphEdges(graph)
            /\ Range(path) \subseteq Range(GraphKeys(graph))

\* C6 happens: a path through three different nodes was returned
C6_Witness ==
    /\ found # Undefined
    /\ \E c \in 1..Len(found[1]) : Len(found[1][c].path) = 4

\* the simple cycles of a set of edges, each written from its least node
\* (least in the order the nodes were named)
NodeIndex(n) == CHOOSE k \in 1..MaxNodes : NodeName(k) = n

SimpleCycles(E) ==
    { p \in UNION { [1..n -> Nodes] : n \in 1..MaxNodes } :
        /\ \A i, j \in 1..Len(p) : p[i] = p[j] => i = j
        /\ \A i \in 2..Len(p) : NodeIndex(p[1]) < NodeIndex(p[i])
        /\ \A i \in 1..Len(p) : <<p[i], p[(i % Len(p)) + 1]>> \in E }

NodeDisjoint(cycles) ==
    \A p \in cycles, q \in cycles : p # q => Range(p) \cap Range(q) = {}

\* C7: when the cycles of the graph are simple cycles that share no node,
\* each of them is returned exactly once and nothing else is, whatever other
\* edges join them; the graph of a single cell A1 = A1 on Sheet1 gives the
\* one path [Sheet1!A1, Sheet1!A1].
C7_OneRecordPerCycle ==
    found # Undefined =>
        /\ LET cycles == SimpleCycles(GraphEdges(graph)) IN
           NodeDisjoint(cycles) =>
              /\ Len(found[1]) = Cardinality(cycles)
              /\ \A p \in cycles :
                    Cardinality({ c \in 1..Len(found[1]) :
                                    Range(found[1][c].path) = Range(p) }) = 1
        /\ graph = buildFormulaGraph(SelfReferenceWorkbook) =>
              found[1] = <<[path |-> <<NodeName(1), NodeName(1)>>]>>

\* C7 happens: two cycles that share no node, joined by an edge that is on
\* no cycle, were both returned
C7_Witness ==
    /\ found # Undefined
    /\ Len(found[1]) = 2
    /\ Cardinality(SimpleCycles(GraphEdges(graph))) = 2
    /\ NodeDisjoint(SimpleCycles(GraphEdges(graph)))
    /\ EdgeCount(graph) = 4

\* C7 happens for the single self-referencing cell too
C7_WitnessSelf ==
    /\ found # Undefined
    /\ graph = buildFormulaGraph(SelfReferenceWorkbook)

\* ---------------------------------------------- properties of evaluation

\* the formula nodes of a workbook: sheet!address of every formula cell of a
\* listed sheet
FormulaNodes(wb) == { c[1] \o <<c[2]>> : c \in FormulaCells(wb) }

\* two formula cells of Sheet1 that read each other, as D2 and D3 do in the
\* test of src/unnamed/part_004 (571-575)
MutuallyReferencing(wb) ==
    \E c \in FormulaCells(wb), d \in FormulaCells(wb) :
        /\ c # d
        /\ c[1] = <<"Sheet1">> /\ d[1] = <<"Sheet1">>
        /\ {<<c, d>>, <<d, c>>} \subseteq EngineEdges(wb)

\* C1: evaluateCell never throws, whatever the sheet, the cell and the
\* engine's outcome: it always returns a result object.
C1_NeverThrows == res.op = "evaluateCell" => ~res.out.threw

\* C2: evaluateAll returns a report with a non-empty circular list only when
\* ignoreCircular was true, whatever the engine did.
C2_CircularIsFatal ==
    (res.op = "evaluateAll" /\ ~res.out.threw /\ res.out.value.circular # << >>)
        => res.ignoreCircular = "true"

C4_OtherFailureIsFatal ==
    (res.op = "evaluateAll" /\ res.cause = "other") => res.out.threw

\* C8: a report returned by evaluateAll lists in evaluated every formula
\* node of the workbook, each once, and in circular what the detector returns
\* on the graph of that workbook, whether the engine failed or not.
C8_ReportIsLive ==
    (res.op = "evaluateAll" /\ ~res.out.threw) =>
        /\ Range(res.out.value.evaluated) = FormulaNodes(workbook)
        /\ NoDuplicates(res.out.value.evaluated)
        /\ res.out.value.circular = DetectCycles(buildFormulaGraph(workbook))

\* C8 happens: the engine completed without reporting a circle, and the
\* report lists a formula node and a cycle the detector found
C8_Witness ==
    /\ res.op = "evaluateAll"
    /\ res.cause = "none"
    /\ ~res.out.threw
    /\ res.out.value.evaluated # << >>
    /\ res.out.value.circular # << >>

\* ------------------------------------------------- properties of the graph

\* the node setCell addresses
CellNode(wb, call) ==
    resolveSheetName(wb, call[1]) \o <<encode_cell(call[2][1] - 1, call[2][2] - 1)>>

\* C9: the nodes that findCircularReferences, getFormulaSummary and
\* evaluateAll work on are the formula cells of the listed sheets of the
\* workbook as it is at the call: a cell setCell gives a formula is a node, a
\* formula cell setCell overwrites with a defined value and no formula is no
\* node, and no cell of a deleted sheet is a node.
C9_GraphIsLive ==
    /\ Range(GraphKeys(buildFormulaGraph(workbook))) = FormulaNodes(workbook)
    /\ res.op = "findCircularReferences"
          => res.out.value = DetectCycles(buildFormulaGraph(workbook))
    /\ res.op = "getFormulaSummary"
          => res.out.value.totalFormulas = Cardinality(FormulaNodes(workbook))
    /\ \A option \in IgnoreCircularInputs, outcome \in EngineOutcomes(workbook) :
          LET r == evaluateWorkbook(workbook, lastEvaluationTimestamp,
                                    option = "true", outcome, MaxClock)
          IN ~r.threw => Range(r.value.evaluated) = FormulaNodes(workbook)
    /\ \A call \in SetCellInputs :
          LET r == setCellValue(workbook, lastEvaluationTimestamp, call[1],
                                call[2][1], call[2][2], call[3][1], call[3][2])
              keys == Range(GraphKeys(buildFormulaGraph(r.wb)))
          IN ~r.threw =>
                /\ Truthy(call[3][2]) => CellNode(workbook, call) \in keys
                /\ (~Truthy(call[3][2]) /\ call[3][1] # "undefined")
                      => CellNode(workbook, call) \notin keys
    /\ \A name \in DeleteSheetInputs :
          LET r == deleteWorksheet(workbook, lastEvaluationTimestamp, name)
              keys == Range(GraphKeys(buildFormulaGraph(r.wb)))
          IN ~r.threw =>
                \A a \in Addresses : name \o <<a>> \notin keys

\* C9 happens: the workbook holds a formula cell and a cell that setCell has
\* stripped of its formula, and findCircularReferences was asked
C9_Witness ==
    /\ res.op = "findCircularReferences"
    /\ Cardinality(FormulaNodes(workbook)) = 1
    /\ CellCount(workbook) = 2
    /\ Len(workbook.SheetNames) = 1

\* C10: getFormulaSummary counts the formula cells of the listed sheets, the
\* sheets that hold one, and the cycles findCircularReferences returns on the
\* same workbook; without formulas the first is 0 and there is no cycle.
C10_SummaryCounts ==
    res.op = "getFormulaSummary" =>
        /\ res.out.value.totalFormulas = Cardinality(FormulaCells(workbook))
        /\ res.out.value.sheetsWithFormulas
              = Cardinality({ c[1] : c \in FormulaCells(workbook) })
        /\ res.out.value.circularReferences
              = Len(detectCircularReferences(workbook, Undefined))
        /\ FormulaCells(workbook) = {}
              => /\ res.out.value.totalFormulas = 0
                 /\ detectCircularReferences(workbook, Undefined) = << >>

\* -------------------------------------------------- properties of queries

InternalFailure(cause, message) == cause # "none" /\ ~includesCircular(message)

\* the nodes on the cycles of the workbook's graph
CycleNodes(wb) == PathNodes(DetectCycles(buildFormulaGraph(wb)))

\* C12: when the evaluation inside evaluateCell does not fail, the result
\* carries "Circular reference detected." exactly when sheet!address of the
\* target, with the sheet resolved from a name or an index, is on a cycle
\* path of the report; a target cell on no cycle carries no error.
C12_CircularAnnotation ==
    \A sheet \in SheetInputs, rc \in CellInputs,
       outcome \in EngineOutcomes(workbook) :
        LET r == evaluateCellFormula(workbook, lastEvaluationTimestamp,
                                     sheet, rc[1], rc[2], outcome, MaxClock)
            sheetName == resolveSheetName(workbook, sheet)
            target == encode_cell(rc[1] - 1, rc[2] - 1)
            node == sheetName \o <<target>>
        IN (~r.threw /\ ~InternalFailure(outcome.cause, outcome.message)) =>
              /\ r.value.address = node
              /\ r.value.error = Some("Circular reference detected.")
                    <=> node \in CycleNodes(workbook)
              /\ (node \notin CycleNodes(workbook)
                    /\ WsHas(workbook.Sheets[sheetName], target))
                    => r.value.error = Undefined

\* C12 happens: evaluateCell was called on a cell that is on a cycle, the
\* evaluation inside did not fail, and the result carries the annotation
C12_Witness ==
    /\ res.op = "evaluateCell"
    /\ ~res.out.threw
    /\ ~InternalFailure(res.cause, res.message)
    /\ res.out.value.address \in CycleNodes(workbook)
    /\ res.out.value.error = Some("Circular reference detected.")

\* ------------------------------------------------ properties of the assets

\* what a query of a handle resolves to, from the handle's own buffer
LoadResult(arch, q, wb) ==
    IF arch.kind # "zip" THEN Resolved(<< >>)
    ELSE IF q = "macros" THEN macrosOf(arch)
    ELSE overSheets(q = "charts", arch, sheetEntries(arch, wb).value, 1, << >>)

\* C13: getCharts, getImages and listMacros never reject: every call
\* resolves to a list, whatever fails while the archive and its parts are
\* loaded, read and parsed.
C13_NeverRejects ==
    \A h \in Handles, q \in Queries :
        \A o \in calls[h][q].given : o.state = "resolved"

\* C14: when the buffer is no archive all three queries resolve to empty
\* lists; when it is one and no sheet part names a drawing, getCharts and
\* getImages resolve to empty lists; when it holds no macro part,
\* listMacros resolves to an empty list.
C14_EmptyResults ==
    \A h \in Handles, q \in Queries :
        \A o \in calls[h][q].given :
            /\ archive[h].kind # "zip" => o = Resolved(<< >>)
            /\ (archive[h].kind = "zip" /\ archive[h].sheet = "plain"
                  /\ q \in {"charts", "images"}) => o = Resolved(<< >>)
            /\ (archive[h].kind = "zip" /\ archive[h].vba = "absent"
                  /\ q = "macros") => o = Resolved(<< >>)

\* C14 happens: on an archive without drawing and without macros, all three
\* queries of a handle have resolved to empty lists
C14_Witness ==
    /\ archive[1] = PlainArchive
    /\ \A q \in Queries : calls[1][q].given = { Resolved(<< >>) }

\* C15: per handle, each query runs its load at most once however its calls
\* interleave, all its calls get the same result, a query never called has
\* an empty cache whatever else was called on this or another handle, and
\* what a handle's calls get comes from that handle's own buffer.
C15_MemoizedPerHandle ==
    \A h \in Handles, q \in Queries :
        /\ assets[h].loads[q] <= 1
        /\ Cardinality(calls[h][q].given) <= 1
        /\ calls[h][q].made = 0 => (assets[h][q] = Unset /\ assets[h].loads[q] = 0)
        /\ calls[h][q].given \subseteq { LoadResult(archive[h], q, workbook) }

\* C15 happens: getCharts was called twice on a handle before the first call
\* resolved, one load runs, and the other handle has got a different result
C15_Witness ==
    /\ calls[1]["charts"].waiting = 2
    /\ assets[1].loads["charts"] = 1
    /\ calls[2]["charts"].given # {}
    /\ LoadResult(archive[1], "charts", workbook) \notin calls[2]["charts"].given

\* ---- registering formulas: Excel.registerFormula and Excel.registerFormulas
\* (index.ts 52-63) are functions of the module, shared by every handle

\* the workbooks open while formulas are registered
OpenWorkbooks == { InitWorkbook, MutualWorkbook }

InvalidEntry(name, implementation) == name = "" \/ implementation # "function"

\* a map with an entry registerFormula would refuse
InvalidMap(formulas) ==
    /\ formulas # Undefined
    /\ \E i \in 1..Len(formulas[1]) :
          InvalidEntry(formulas[1][i].name, formulas[1][i].implementation)

\* res keeps whether the call was given invalid input and whether it threw
RegistryStep(r, names, call) ==
    /\ customFormulaRegistry' = r.registry
    /\ registered' = IF r.threw THEN registered ELSE registered \cup names
    /\ res' = [call EXCEPT !.out = [threw |-> r.threw]]
    /\ UNCHANGED <<workbook, lastEvaluationTimestamp, graph, found, assetVars,
                   coreVars>>

\* Excel.registerFormula(name, implementation)
registerFormula ==
    \E name \in FormulaNames, implementation \in Implementations :
        RegistryStep(registerCustomFormula(customFormulaRegistry, name, implementation),
                     {name},
                     [op |-> "registerFormula",
                      invalid |-> InvalidEntry(name, implementation),
                      out |-> NoCall])

\* Excel.registerFormulas(formulas); the engine is given a map with an entry
\* it cannot call or name, and either takes it or throws
registerFormulas ==
    \E formulas \in { Undefined } \cup { Some(m) : m \in FormulaMaps },
       engineThrows \in BOOLEAN :
        /\ engineThrows => InvalidMap(formulas)
        /\ RegistryStep(registerCustomFormulas(customFormulaRegistry, formulas, engineThrows),
                        IF formulas = Undefined THEN {}
                        ELSE { formulas[1][i].name : i \in 1..Len(formulas[1]) },
                        [op |-> "registerFormulas",
                         invalid |-> InvalidMap(formulas), out |-> NoCall])

InitRegistry ==
    /\ workbook \in OpenWorkbooks
    /\ lastEvaluationTimestamp = 0
    /\ res = NoCall
    /\ graph = EmptyGraph
    /\ found = Undefined
    /\ archive = [h \in Handles |-> NotAnArchive]
    /\ assets = [h \in Handles |-> FreshAssets]
    /\ calls = NoCalls
    /\ customFormulaRegistry = << >>
    /\ registered = {}
    /\ coreRegistry = ImportedRegistry
    /\ excelRegistered = TRUE

NextRegistry ==
    \/ registerFormula
    \/ registerFormulas
    \/ getFormulaSummary

SpecRegistry == InitRegistry /\ [][NextRegistry]_vars

\* -------------------------------------------- properties of the registry

\* C16: registerFormula and registerFormulas fail on an empty name or an
\* implementation that is not callable (registerFormulas: on any such entry
\* of the map), and a call that fails adds no name to the registry.
C16_InvalidInputFails ==
    [][ res'.op \in {"registerFormula", "registerFormulas"}
           => /\ res'.invalid => res'.out.threw
              /\ res'.out.threw
                    => customFormulaRegistry' = customFormulaRegistry ]_vars

\* the elements of names, ascending by code units, each once
RECURSIVE AscendingList(_)
AscendingList(names) ==
    IF names = {} THEN << >>
    ELSE LET least == CHOOSE n \in names :
                          \A m \in names \ {n} : nameBefore(n, m)
         IN <<least>> \o AscendingList(names \ {least})

\* C17: after any registration calls in any order, customFormulas of the
\* summary of every open workbook is the ascending, duplicate-free list of
\* the upper-cased names given to the registrations that returned; no name
\* leaves the registry.
C17_CustomFormulas ==
    [][ LET expected == AscendingList({ toUpperCase(n) : n \in registered' })
        IN /\ Range(customFormulaRegistry) \subseteq Range(customFormulaRegistry')
           /\ \A wb \in OpenWorkbooks :
                 summarizeFormulas(wb, lastEvaluationTimestamp',
                                   customFormulaRegistry').value.customFormulas
                    = expected
           /\ res'.op = "getFormulaSummary"
                 => res'.out.value.customFormulas = expected ]_vars

\* C17 happens: a summary lists names that were registered in another
\* order than the sorted one, one of them given in lower case, one twice
C17_Witness ==
    /\ res.op = "getFormulaSummary"
    /\ Len(res.out.value.customFormulas) >= 3
    /\ res.out.value.customFormulas # customFormulaRegistry
    /\ {"double", "DOUBLE"} \subseteq registered


\* ---- resolving the references of a formula text

MaxTokens == 2

\* a reference token [sheet-qualifier!]COLROW: the qualifier (none, bare or
\* quoted), the column letters and the row digits, whether "$" precedes
\* each, and whether the letters are written in lower case
Qualifiers ==
    { [kind |-> "none", name |-> << >>],
      [kind |-> "bare", name |-> <<"Q", "2">>],
      [kind |-> "quoted", name |-> <<"m", " ", "s">>] }

ReferenceTokens ==
    [qual : Qualifiers, colAbs : BOOLEAN,
     col : { <<"A">>, <<"A", "B">>, <<"A", "B", "C">> },
     rowAbs : BOOLEAN, row : { <<"1">>, <<"1", "2">> }, lower : BOOLEAN]

\* the text of a token
TokenText(tok) ==
    (CASE tok.qual.kind = "none" -> << >>
       [] tok.qual.kind = "bare" -> tok.qual.name \o <<"!">>
       [] tok.qual.kind = "quoted" -> <<"'">> \o tok.qual.name \o <<"'", "!">>)
      \o (IF tok.colAbs THEN <<"$">> ELSE << >>)
      \o (IF tok.lower THEN [ i \in 1..Len(tok.col) |-> charToLowerCase(tok.col[i]) ]
          ELSE tok.col)
      \o (IF tok.rowAbs THEN <<"$">> ELSE << >>)
      \o tok.row

\* the text of a formula: its tokens with an operator between them
RECURSIVE FormulaText(_)
FormulaText(toks) ==
    IF toks = << >> THEN << >>
    ELSE IF Len(toks) = 1 THEN TokenText(toks[1])
    ELSE TokenText(toks[1]) \o <<"+">> \o FormulaText(Tail(toks))

\* the formulas resolved: one token in either case, more in upper case
ResolverFormulas ==
    { <<t>> : t \in ReferenceTokens }
      \cup UNION { [1..n -> { t \in ReferenceTokens : ~t.lower }] : n \in 2..MaxTokens }

\* the sheet the formula is on
ResolverSheets == { <<"Q", "2">>, <<"m", " ", "s">> }

\* the graph buildFormulaGraph (handler.ts 762-768) makes of one cell
RECURSIVE addTextRefs(_, _, _, _)
addTextRefs(g, node, refs, i) ==
    IF i > Len(refs) THEN g
    ELSE addTextRefs(GraphAddDep(g, node, refs[i]), node, refs, i + 1)

cellGraph(sheetName, address, refs) ==
    LET node == sheetName \o <<"!">> \o normalizeAddressText(address)
    IN addTextRefs(GraphSetNew(EmptyGraph, node), node, refs, 1)

InitResolver ==
    /\ workbook = InitWorkbook
    /\ lastEvaluationTimestamp = 0
    /\ \E toks \in ResolverFormulas, sheet \in ResolverSheets :
          res = [op |-> "formula", tokens |-> toks, sheet |-> sheet]
    /\ graph = EmptyGraph
    /\ found = Undefined
    /\ archive = [h \in Handles |-> NotAnArchive]
    /\ assets = [h \in Handles |-> FreshAssets]
    /\ calls = NoCalls
    /\ customFormulaRegistry = << >>
    /\ registered = {}
    /\ coreRegistry = ImportedRegistry
    /\ excelRegistered = TRUE

\* extractCellReferences(formula, currentSheet)
resolveReferences ==
    /\ res.op = "formula"
    /\ res' = [op |-> "extractCellReferences", tokens |-> res.tokens,
               sheet |-> res.sheet,
               out |-> extractCellReferencesText(FormulaText(res.tokens), res.sheet)]
    /\ UNCHANGED <<workbook, lastEvaluationTimestamp, graph, found, assetVars,
                   registryVars,
                   coreVars>>

NextResolver == resolveReferences

SpecResolver == InitResolver /\ [][NextResolver]_vars

\* ------------------------------------------- properties of the resolver

\* the reference the token denotes on the sheet
TokenReference(tok, sheet) ==
    (IF tok.qual.kind = "none" THEN sheet ELSE tok.qual.name)
      \o <<"!">> \o tok.col \o tok.row

\* C18: for a formula of tokens [qualifier!]COLROW with one to three
\* upper-case column letters and optional "$" before column and row, the
\* resolver on sheet S returns one reference per token, S!COLROW without
\* qualifier and Q!COLROW with qualifier Q or 'Q', "$" stripped.
C18_OneReferencePerToken ==
    (res.op = "extractCellReferences"
       /\ \A i \in 1..Len(res.tokens) : ~res.tokens[i].lower)
    => res.out = [ i \in 1..Len(res.tokens) |->
                     TokenReference(res.tokens[i], res.sheet) ]

\* the tokens written with upper-case column letters
UpperCased(toks) == [ i \in 1..Len(toks) |-> [toks[i] EXCEPT !.lower = FALSE] ]

\* C19: a reference written with lower-case column letters resolves to the
\* same node as its upper-case form, and a cell A1 holding it is reported in
\* the same cycles.
C19_CaseInsensitive ==
    res.op = "extractCellReferences"
    => LET upper == extractCellReferencesText(FormulaText(UpperCased(res.tokens)),
                                              res.sheet)
       IN /\ res.out = upper
          /\ DetectCycles(cellGraph(res.sheet, <<"A", "1">>, res.out))
                = DetectCycles(cellGraph(res.sheet, <<"A", "1">>, upper))

\* ---- sheets and cells: the calls that take a sheet name or a position

\* what XLSX.read makes of the CSV text: no sheet, an empty one, one cell
CsvInputs ==
    { Undefined, Some(EmptySheet),
      Some(<<[addr |-> "A1", cell |-> [f |-> Undefined]]>>) }

\* file.addSheetFromCSV(name, csv)
addSheetFromCSV ==
    \E name \in AddSheetInputs, parsed \in CsvInputs :
        LET r == addWorksheetFromCSV(workbook, lastEvaluationTimestamp, name, parsed)
        IN /\ CellCount(r.wb) <= MaxCells
           /\ Apply(r, [op |-> "addSheetFromCSV", out |-> NoCall])

\* file.getCell(sheet, row, column)
getCell ==
    \E sheet \in SheetInputs, rc \in CellInputs :
        Apply(getCellValue(workbook, lastEvaluationTimestamp, sheet, rc[1], rc[2]),
              [op |-> "getCell", out |-> NoCall])

\* file.toCSV(sheet)
toCSV ==
    \E sheet \in SheetInputs :
        Apply(worksheetToCSV(workbook, lastEvaluationTimestamp, sheet),
              [op |-> "toCSV", out |-> NoCall])

NextSheets ==
    \/ setCell
    \/ addSheet
    \/ addSheetFromCSV
    \/ deleteSheet
    \/ getCell
    \/ toCSV

SpecSheets == Init /\ [][NextSheets]_vars

\* ------------------------------------------- properties of the error paths

\* the input names no sheet of the list
UnknownName(sheet) ==
    sheet.kind = "name" /\ sheet.name \notin Range(workbook.SheetNames)

\* the name is blank, or names a sheet of the list, once trimmed
RefusedName(name) ==
    trim(name) = <<"">> \/ trim(name) \in Range(workbook.SheetNames)

\* the call raised an error and left the sheet list and every cell as they were
FailedUnchanged(r) == r.threw /\ r.wb = workbook

TimestampWorkbooks ==
    { InitWorkbook,
      SheetOf(<<[addr |-> "A1", cell |-> [f |-> Some(Text(<< >>))]]>>),
      MutualWorkbook, SelfReferenceWorkbook }

InitTimestamp ==
    /\ workbook \in TimestampWorkbooks
    /\ lastEvaluationTimestamp = 0
    /\ res = NoCall
    /\ graph = EmptyGraph
    /\ found = Undefined
    /\ archive = [h \in Handles |-> NotAnArchive]
    /\ assets = [h \in Handles |-> FreshAssets]
    /\ calls = NoCalls
    /\ customFormulaRegistry = << >>
    /\ registered = {}
    /\ coreRegistry = ImportedRegistry
    /\ excelRegistered = TRUE

NextTimestamp ==
    \/ evaluateAll
    \/ evaluateCell
    \/ getFormulaSummary
    \/ findCircularReferences

SpecTimestamp == InitTimestamp /\ [][NextTimestamp]_vars

\* ------------------------------------------- properties of the timestamp

\* the call ran evaluateWorkbook and the run returned
RunReturned(call) ==
    \/ call.op = "evaluateAll" /\ ~call.out.threw
    \/ /\ call.op = "evaluateCell"
       /\ ~call.out.threw
       /\ ~InternalFailure(call.cause, call.message)

\* C21: lastEvaluatedAt is undefined (0) until a run of evaluateAll has
\* returned and changes only when one returns: an evaluateAll that throws
\* leaves it unchanged, and so do getFormulaSummary and
\* findCircularReferences; the summary reports it.
C21_LastEvaluatedAt ==
    [][ /\ lastEvaluationTimestamp' # lastEvaluationTimestamp => RunReturned(res')
        /\ (res'.op = "evaluateAll" /\ res'.out.threw)
           => lastEvaluationTimestamp' = lastEvaluationTimestamp
        /\ res'.op \in {"getFormulaSummary", "findCircularReferences"}
           => lastEvaluationTimestamp' = lastEvaluationTimestamp
        /\ res'.op = "getFormulaSummary"
           => res'.out.value.lastEvaluatedAt = lastEvaluationTimestamp ]_vars

\* C21 happens: an evaluateAll has thrown after an earlier one had returned
C21_Witness ==
    /\ res.op = "evaluateAll"
    /\ res.out.threw
    /\ lastEvaluationTimestamp >= 1

\* ---- two handles: each open has its own workbook (handler.ts 48-63), and
\* lastEvaluationTimestamp is one variable of the module (handler.ts 41)

\* the workbook of a handle: the first handle's is the one edited, the
\* second's holds two cells that read each other
HandleWorkbook(h) == IF h = 1 THEN workbook ELSE MutualWorkbook

\* a call on handle h: the engine rewrites values only, so the workbooks
\* stay as they are
HandleStep(h, r, op) ==
    /\ lastEvaluationTimestamp' = r.ts
    /\ res' = [op |-> op, handle |-> h, out |-> Outcome(r)]
    /\ UNCHANGED <<workbook, graph, found, assetVars, registryVars, coreVars>>

evaluateAllOn ==
    \E h \in Handles, option \in IgnoreCircularInputs,
       now \in ClockReadings(lastEvaluationTimestamp) :
      \E outcome \in EngineOutcomes(HandleWorkbook(h)) :
        HandleStep(h, evaluateWorkbook(HandleWorkbook(h), lastEvaluationTimestamp,
                                       option = "true", outcome, now),
                   "evaluateAll")

evaluateCellOn ==
    \E h \in Handles, rc \in CellInputs,
       now \in ClockReadings(lastEvaluationTimestamp) :
      \E outcome \in EngineOutcomes(HandleWorkbook(h)) :
        HandleStep(h, evaluateCellFormula(HandleWorkbook(h), lastEvaluationTimestamp,
                                          [kind |-> "index", index |-> 0],
                                          rc[1], rc[2], outcome, now),
                   "evaluateCell")

getFormulaSummaryOn ==
    \E h \in Handles :
        HandleStep(h, summarizeFormulas(HandleWorkbook(h), lastEvaluationTimestamp,
                                        customFormulaRegistry),
                   "getFormulaSummary")

NextHandles ==
    \/ evaluateAllOn
    \/ evaluateCellOn
    \/ getFormulaSummaryOn

SpecHandles == InitTimestamp /\ [][NextHandles]_vars

\* lastEvaluatedAt as the summary of handle h gives it
LastEvaluatedAt(h, ts) ==
    summarizeFormulas(HandleWorkbook(h), ts, customFormulaRegistry).value.lastEvaluatedAt

\* C28: the lastEvaluatedAt of a handle's summary is affected only by the
\* evaluations run on that handle: evaluateAll or evaluateCell on another
\* handle leaves it unchanged.
C28_PerHandleTimestamp ==
    [][ res'.op \in {"evaluateAll", "evaluateCell"}
        => \A h \in Handles \ {res'.handle} :
              LastEvaluatedAt(h, lastEvaluationTimestamp')
                 = LastEvaluatedAt(h, lastEvaluationTimestamp) ]_vars

\* ------------------------------------- properties of the sheet positions

\* the input is a number that is no position of the sheet list
InvalidIndex(sheet) ==
    sheet.kind = "index" /\ ~(sheet.index + 1 \in 1..Len(workbook.SheetNames))

\* C29: getCell, setCell, toCSV and evaluateCell given a numeric sheet index
\* that is no position of the sheet list fail with an error, and the failing
\* setCell leaves every sheet unchanged.
C29_InvalidIndexFails ==
    \A sheet \in SheetInputs :
        InvalidIndex(sheet)
        => /\ worksheetToCSV(workbook, lastEvaluationTimestamp, sheet).threw
           /\ \A rc \in CellInputs :
                 /\ getCellValue(workbook, lastEvaluationTimestamp,
                                 sheet, rc[1], rc[2]).threw
                 /\ \A w \in WriteInputs :
                       FailedUnchanged(setCellValue(workbook, lastEvaluationTimestamp,
                                                    sheet, rc[1], rc[2], w[1], w[2]))
                 /\ \A outcome \in EngineOutcomes(workbook) :
                       LET r == evaluateCellFormula(workbook, lastEvaluationTimestamp,
                                                    sheet, rc[1], rc[2], outcome, MaxClock)
                       IN r.threw \/ r.value.error # Undefined

\* ----------------------------------- properties of the evaluateCell result

\* C30: when evaluateCell returns a result without error for a cell that
\* holds a formula, the engine's run of that call completed without failure;
\* when the run failed, the result for a formula cell carries an error.
C30_NoErrorMeansEngineCompleted ==
    (res.op = "evaluateCell" /\ ~res.out.threw
       /\ res.out.value.formula # Undefined
       /\ res.out.value.error = Undefined)
    => res.cause = "none"

\* ---- the core registry: handlers are registered, the registry is cleared,
\* the Excel module registers its handler, sources are opened

\* the paths opened, each with the extension it is read to have
Paths ==
    { [text |-> <<"a", ".", "x", "l", "s", "x">>, extension |-> Some(<<"x", "l", "s", "x">>)],
      [text |-> <<"a", ".", "X", "l", "s">>, extension |-> Some(<<"x", "l", "s">>)],
      [text |-> <<" ", "a", ".", "T", "X", "T", " ">>, extension |-> Some(<<"t", "x", "t">>)],
      [text |-> <<"a", ".", "b", ".", "m", "d">>, extension |-> Some(<<"m", "d">>)],
      [text |-> <<"a", ".", "c", "s", "v">>, extension |-> Some(<<"c", "s", "v">>)],
      [text |-> <<"a">>, extension |-> Undefined],
      [text |-> <<"a", ".">>, extension |-> Undefined] }

Sources ==
    { [kind |-> "path", path |-> p.text] : p \in Paths }
      \cup { [kind |-> "buffer", buffer |-> b] : b \in Buffers }

CoreStep(reg, flag, call) ==
    /\ coreRegistry' = reg
    /\ excelRegistered' = flag
    /\ res' = call
    /\ UNCHANGED <<workbook, lastEvaluationTimestamp, graph, found, assetVars,
                   registryVars>>

\* AnyFile.register(handler), index.ts 45-48
registerHandler ==
    \E handler \in Handlers :
        LET r == registerFileType(coreRegistry, handler) IN
        CoreStep(r.registry, excelRegistered,
                 [op |-> "registerFileType", handler |-> handler,
                  out |-> [threw |-> r.threw,
                           error |-> IF r.threw THEN r.error ELSE ""]])

\* clearRegistry()
clearAll ==
    CoreStep(clearRegistry(coreRegistry), excelRegistered, [op |-> "clearRegistry"])

\* Excel.register(), excel index.ts 50; the first call is the one the module
\* makes when it is loaded (index.ts 104)
excelRegister ==
    LET r == ensureRegistered(coreRegistry, excelRegistered) IN
    CoreStep(r.registry, r.registered,
             [op |-> "Excel.register", out |-> [threw |-> r.threw]])

\* AnyFile.open(source, { type })
openSource ==
    \E source \in Sources, type \in { Undefined } \cup { Some(t) : t \in FileTypes } :
        CoreStep(coreRegistry, excelRegistered,
                 [op |-> "open", source |-> source, type |-> type,
                  out |-> openWith(coreRegistry, source, type)])

\* Excel.open(source), excel index.ts 74-82: ensureRegistered(), then
\* AnyFile.open(source, { type: "excel" })
excelOpen ==
    \E source \in Sources :
        LET r == ensureRegistered(coreRegistry, excelRegistered) IN
        CoreStep(r.registry, r.registered,
                 [op |-> "Excel.open",
                  out |-> IF r.threw THEN [threw |-> TRUE, error |-> "register"]
                          ELSE openWith(r.registry, source, Some("excel"))])

InitCore ==
    /\ workbook = InitWorkbook
    /\ lastEvaluationTimestamp = 0
    /\ res = NoCall
    /\ graph = EmptyGraph
    /\ found = Undefined
    /\ archive = [h \in Handles |-> NotAnArchive]
    /\ assets = [h \in Handles |-> FreshAssets]
    /\ calls = NoCalls
    /\ customFormulaRegistry = << >>
    /\ registered = {}
    /\ coreRegistry = EmptyRegistry
    /\ excelRegistered = FALSE

NextCore ==
    \/ registerHandler
    \/ clearAll
    \/ excelRegister
    \/ openSource
    \/ excelOpen

SpecCore == InitCore /\ [][NextCore]_vars

\* ---------------------------------------- properties of the core registry

\* the lower-cased extensions handlers can bring
Extensions ==
    UNION { { toLowerCase(h.extensions[i]) : i \in 1..Len(h.extensions) }
              : h \in Handlers }

\* the type or one of the lower-cased extensions of the handler is a key
AlreadyRegistered(reg, handler) ==
    \/ MapHas(reg.byType, handler.type)
    \/ \E i \in 1..Len(handler.extensions) :
          MapHas(reg.byExtension, toLowerCase(handler.extensions[i]))

\* every key of the map appears once
KeysOnce(m) == \A i, j \in 1..Len(m) : m[i].key = m[j].key => i = j

\* C22: each type and each lower-cased extension maps to at most one
\* handler, the first registered for it: a registration whose type or one
\* of whose extensions is already registered fails with an "already
\* registered" error, and no registration replaces a mapping (until
\* clearRegistry).
C22_FirstRegistrationWins ==
    [][ res'.op # "clearRegistry"
        => /\ KeysOnce(coreRegistry'.byType) /\ KeysOnce(coreRegistry'.byExtension)
           /\ \A t \in FileTypes :
                 getHandlerByType(coreRegistry, t) # Undefined
                 => getHandlerByType(coreRegistry', t) = getHandlerByType(coreRegistry, t)
           /\ \A e \in Extensions :
                 getHandlerByExtension(coreRegistry, e) # Undefined
                 => getHandlerByExtension(coreRegistry', e)
                       = getHandlerByExtension(coreRegistry, e)
           /\ (res'.op = "registerFileType"
                 /\ AlreadyRegistered(coreRegistry, res'.handler))
              => (res'.out.threw /\ includesAlreadyRegistered(res'.out.error)) ]_vars

\* C22 happens: a handler whose extension was taken has been refused, and
\* the extension still maps to the first handler
C22_Witness ==
    /\ res.op = "registerFileType"
    /\ res.handler = CsvHandler
    /\ res.out.threw
    /\ res.out.error = ExtensionRegistered
    /\ getHandlerByExtension(coreRegistry, <<"T", "X", "T">>) = Some(TextHandler)

\* the registered handlers whose detect hook accepts the buffer
Accepting(reg, buffer) ==
    { h \in Handlers :
        /\ \E i \in 1..Len(reg.byType) : reg.byType[i].value = h
        /\ h.hasDetect
        /\ buffer \in h.accepts }

\* the extension the path of a source is read to have
ExtensionOf(source) ==
    (CHOOSE p \in Paths : p.text = source.path).extension

\* the handler AnyFile.open is to resolve, or "error"
Resolved_(reg, source, type) ==
    IF type # Undefined
    THEN IF \E h \in Handlers : getHandlerByType(reg, type[1]) = Some(h)
         THEN (CHOOSE h \in Handlers : getHandlerByType(reg, type[1]) = Some(h)).id
         ELSE "error"
    ELSE IF source.kind = "path"
    THEN IF ExtensionOf(source) = Undefined THEN "error"
         ELSE IF \E h \in Handlers :
                    MapGet(reg.byExtension, ExtensionOf(source)[1]) = Some(h)
         THEN (CHOOSE h \in Handlers :
                   MapGet(reg.byExtension, ExtensionOf(source)[1]) = Some(h)).id
         ELSE "error"
    ELSE IF Cardinality(Accepting(reg, source.buffer)) = 1
         THEN (CHOOSE h \in Accepting(reg, source.buffer) : TRUE).id
         ELSE "error"

\* C23: AnyFile.open resolves the handler registered for options.type when
\* one is given, else for a path the handler registered for the path's
\* lower-cased extension, else for a buffer the one registered handler whose
\* detect hook accepts it; it fails when there is no such handler, when the
\* path has no extension, and when more than one handler accepts the buffer.
C23_ResolveHandler ==
    res.op = "open"
    => LET expected == Resolved_(coreRegistry, res.source, res.type)
       IN IF expected = "error" THEN res.out.threw
          ELSE ~res.out.threw /\ res.out.value = expected

\* C23 happens: a buffer that two registered handlers accept has been refused
C23_Witness ==
    /\ res.op = "open"
    /\ res.type = Undefined
    /\ res.source.kind = "buffer"
    /\ Cardinality(Accepting(coreRegistry, res.source.buffer)) = 2
    /\ res.out.threw

\* C26: Excel.register() never raises an error, and after every call a
\* handler for the type "excel" is registered, whatever registrations and
\* clearRegistry calls came before; a following Excel.open does not fail
\* for lack of a handler.
C26_ExcelStaysRegistered ==
    [][ /\ res'.op = "Excel.register"
           => /\ ~res'.out.threw
              /\ getHandlerByType(coreRegistry', "excel") # Undefined
        /\ (res.op = "Excel.register" /\ res'.op = "Excel.open")
           => ~res'.out.threw ]_vars

\* C27: a registerFileType call that fails leaves the registry as it was
\* before the call.
C27_FailedRegistrationChangesNothing ==
    [][ (res'.op = "registerFileType" /\ res'.out.threw)
        => coreRegistry' = coreRegistry ]_vars

\* ------------------------------------------------ properties of the macros

\* the names of the entries of a list
NamesOf(list) == { list[i].name : i \in 1..Len(list) }

\* the list has one entry per name of names, or one entry named placeholder
\* when there is none, every entry under the module label VBAProject
ListsNames(list, names) ==
    /\ Len(list) >= 1
    /\ \A i \in 1..Len(list) : list[i].module = "VBAProject"
    /\ \A i, j \in 1..Len(list) : list[i].name = list[j].name => i = j
    /\ NamesOf(list) = IF names = { } THEN { VBAProjectName } ELSE names

\* C24: when the archive loads and holds the VBA part, listMacros resolves
\* to a non-empty list whose entries all carry the module label VBAProject:
\* one entry per distinct module or worksheet name found in the part, one
\* placeholder entry when none is found, one entry named Unknown when
\* reading the part fails.
C24_MacrosNeverEmpty ==
    /\ \A part \in VbaParts : ListsNames(scanMacros(part.text), part.names)
    /\ \A h \in Handles :
          (archive[h].kind = "zip" /\ archive[h].vba # "absent")
          => \A o \in calls[h]["macros"].given :
                /\ o.state = "resolved"
                /\ IF archive[h].vba = "unreadable"
                   THEN o.value = <<[module |-> "VBAProject", name |-> UnknownModule]>>
                   ELSE \E part \in VbaParts :
                           /\ part.text = vbaText(archive[h].vba)
                           /\ ListsNames(o.value, part.names)

\* C24 happens: listMacros has resolved on an archive whose part names a
\* module twice, the workbook and a second sheet
C24_Witness ==
    /\ archive[1].kind = "zip"
    /\ archive[1].vba = "mixed"
    /\ \E o \in calls[1]["macros"].given : Len(o.value) = 3

\* ---------------------------------------------- properties of the sheet list

\* the list without the name, the other names in their order
Without(names, name) == SelectSeq(names, LAMBDA n : n # name)

\* the name can be added: something is left of it once trimmed, and the
\* list does not hold that
Addable(wb, name) == trim(name) # <<"">> /\ trim(name) \notin Range(wb.SheetNames)

\* what adding the name makes of the list, and what deleting it again does
AddsThenDeletes(wb, ts, name, r) ==
    IF Addable(wb, name)
    THEN /\ ~r.threw
         /\ r.wb.SheetNames = Append(wb.SheetNames, trim(name))
         /\ LET d == deleteWorksheet(r.wb, ts, trim(name))
            IN ~d.threw /\ d.wb.SheetNames = wb.SheetNames
    ELSE r.threw /\ r.wb.SheetNames = wb.SheetNames

====
